---- MODULE Spec2Model ----
(***************************************************************************)
(* Model of the storage and execution engine of skytable: the primary      *)
(* index (engine/idx/mtchm/imp.rs), the insert path of the DML layer       *)
(* (engine/core/dml/ins.rs) and the data batch restore driver              *)
(* (engine/storage/v1/batch_jrnl/restore.rs).                              *)
(*                                                                         *)
(* The specifications share the variables:                                 *)
(*   SpecIndex   - the MTIndex operations run against one raw index        *)
(*   SpecDml     - threads running insert (and delete) statements          *)
(*   SpecPrepare - prepare_insert applied to one insert payload            *)
(*   SpecRestore - read_all_batches_and_for_each decoding the bytes of a   *)
(*                 journal                                                 *)
(*   SpecServer - read_data_batch_into_model replaying a journal, then     *)
(*                insert statements served one at a time                   *)
(***************************************************************************)
EXTENDS Integers, Sequences, FiniteSets, TLC

VARIABLES
    index,                 \* the primary index: a set of tree elements
    ret,                   \* SpecIndex: what the last MTIndex call returned
    lastIns,               \* SpecIndex: key -> value of the last mt_insert, while no mutation targeted the key since
    deleted,               \* SpecIndex: keys removed by mt_delete (how they came back, if they did)
    data_delta_version,    \* DeltaState.data_delta_version
    queue,                 \* DeltaState's queue of pending data deltas
    thr,                   \* SpecDml: per thread, the position in its statement and its locals
    rstatus,               \* restore: "idle" between batches, "events" and "pending" inside apply_batch,
                           \* "ok" once restore returned Ok, "panic"; "serving" once statements run
    pending_delete,        \* apply_batch: the scratch map pk -> txn_id of the batch's deletes
    bpos,                  \* restore: number of batches applied
    used,                  \* restore: the txn_ids the journal's events carried so far
    ref,                   \* restore: per key, the event of largest txn_id the journal held so far
    mdl,                   \* SpecPrepare: the fields of the model the statement targets
    stmt,                  \* SpecPrepare: the InsertData of the statement
    prep,                  \* SpecPrepare: what prepare_insert returned, once it ran
    journal,               \* SpecRestore: the pieces the journal file is made of
    reader,                \* SpecRestore: the tracked reader (file cursor, tracked cursor, checksum)
    closed,                \* SpecRestore: the local `closed` of the loop
    rpc,                   \* SpecRestore: where the loop stands: "loop", "reopen", "summary", "recover", "done"
    last_batch,               \* SpecRestore: what read_batch returned last
    applied,               \* SpecRestore: the batches handed to f, in order
    rerr,                  \* SpecRestore: what restore returned: "none" while it runs, "Ok" or the error
    scans,                 \* SpecRestore: the number of calls of attempt_recover_data_batch
    root_key,              \* SysAuth.root_key
    users,                 \* SysAuth.users: username -> SysAuthUser
    aret,                  \* SpecAuth: the last call of SysAuth, its arguments and what it returned
    created                \* SpecAuth: username -> the password of the call that created it

idxHist == <<ret, lastIns, deleted>>
dmlVars == <<data_delta_version, queue, thr>>
rstVars == <<rstatus, pending_delete, bpos, used, ref>>
prepVars == <<mdl, stmt, prep>>
decVars == <<journal, reader, closed, rpc, last_batch, applied, rerr, scans>>
authVars == <<root_key, users, aret, created>>
auxVars == <<prepVars, decVars, authVars>>
vars == <<index, ret, lastIns, deleted, data_delta_version, queue, thr,
          rstatus, pending_delete, bpos, used, ref, mdl, stmt, prep,
          journal, reader, closed, rpc, last_batch, applied, rerr, scans,
          root_key, users, aret, created>>

(***************************************************************************)
(* Bounds                                                                  *)
(***************************************************************************)
MaxKey == 2
MaxVal == 2
MaxStr == 1
NumThreads == 2
MaxTxn == 3
MaxBatches == 2
MaxInserts == 2
MaxSegs == 4
MaxEdge == 3
MaxPw == 2
MaxSalt == 1

Keys == 1..MaxKey
Vals == 1..MaxVal
Strs == 1..MaxStr
Threads == 1..NumThreads
\* the thread that runs the delete statement
Deleter == 0
AllThreads == Threads \cup {Deleter}

\* Option<T>: None is the empty tuple, Some(v) the one-element tuple
None == <<>>
Some(v) == <<v>>

Max(S) == CHOOSE x \in S : \A y \in S : y <= x

(***************************************************************************)
(* The index. A tree element pairs a key with a value; the tree is         *)
(* modelled by the set of elements it holds.                               *)
(***************************************************************************)
E_new(key, val) == [key |-> key, val |-> val]

Holding(idx, key) == {e \in idx : e.key = key}

\* RawTree::patch with the VanillaInsert patch: writes only when the key is absent
patch_VanillaInsert(idx, e) ==
    IF Holding(idx, e.key) = {}
    THEN [idx |-> idx \cup {e}, ret |-> TRUE]
    ELSE [idx |-> idx, ret |-> FALSE]

\* RawTree::patch with the VanillaUpsert patch: writes whether or not the key is there
patch_VanillaUpsert(idx, e) ==
    [idx |-> (idx \ Holding(idx, e.key)) \cup {e}, ret |-> TRUE]

\* RawTree::patch with the VanillaUpdate patch: writes only when the key is there
patch_VanillaUpdate(idx, e) ==
    IF Holding(idx, e.key) # {}
    THEN [idx |-> (idx \ Holding(idx, e.key)) \cup {e}, ret |-> TRUE]
    ELSE [idx |-> idx, ret |-> FALSE]

\* RawTree::remove
remove(idx, key) ==
    [idx |-> idx \ Holding(idx, key), ret |-> Holding(idx, key) # {}]

\* RawTree::nontransactional_clear
nontransactional_clear(idx) == {}

\* RawTree::get
get(idx, key) ==
    IF Holding(idx, key) = {} THEN None
    ELSE Some((CHOOSE e \in Holding(idx, key) : TRUE).val)

\* RawTree::contains_key
contains_key(idx, key) == Holding(idx, key) # {}

mt_insert_as_upsert(idx, key, val) == patch_VanillaUpsert(idx, E_new(key, val))

mt_insert_unchecked(idx, key, val) == [idx |-> idx \cup {E_new(key, val)}, ret |-> TRUE]

mt_insert(idx, key, val) == patch_VanillaInsert(idx, E_new(key, val))

mt_upsert(idx, key, val) == patch_VanillaUpsert(idx, E_new(key, val))

mt_update_as_upsert(idx, key, val) == patch_VanillaUpsert(idx, E_new(key, val))

mt_update(idx, key, val) == patch_VanillaUpdate(idx, E_new(key, val))

mt_contains(idx, key) == contains_key(idx, key)

mt_get(idx, key) == get(idx, key)

mt_delete_as_clear(idx, key) == [idx |-> nontransactional_clear(idx), ret |-> Holding(idx, key) # {}]

mt_delete(idx, key) == remove(idx, key)

mt_clear(idx) == nontransactional_clear(idx)

(***************************************************************************)
(* SpecIndex: the MTIndex calls, each one linearizable, run in any order   *)
(* against one index of integer keys and values.                           *)
(***************************************************************************)
NoKeys == [k \in Keys |-> None]

\* the variables of the other specifications, at rest
PrepIdle ==
    /\ mdl = <<>>
    /\ stmt = None
    /\ prep = None
DecIdle ==
    /\ journal = <<>>
    /\ reader = <<>>
    /\ closed = FALSE
    /\ rpc = "done"
    /\ last_batch = <<>>
    /\ applied = <<>>
    /\ rerr = "none"
    /\ scans = 0
AuthIdle ==
    /\ root_key = <<>>
    /\ users = <<>>
    /\ aret = None
    /\ created = <<>>
AuxIdle == PrepIdle /\ DecIdle /\ AuthIdle

InitIndex ==
    /\ index = {}
    /\ ret = None
    /\ lastIns = NoKeys
    /\ deleted = [k \in Keys |-> "no"]
    /\ data_delta_version = 0
    /\ queue = <<>>
    /\ thr = <<>>
    /\ rstatus = "serving"
    /\ pending_delete = <<>>
    /\ bpos = 0
    /\ used = {}
    /\ ref = NoKeys
    /\ AuxIdle

MtInsert(k, v) ==
    LET r == mt_insert(index, k, v) IN
    /\ index' = r.idx
    /\ ret' = Some(r.ret)
    /\ lastIns' = [lastIns EXCEPT ![k] = IF r.ret THEN Some(v) ELSE None]
    /\ deleted' = [deleted EXCEPT ![k] = IF r.ret THEN "no" ELSE @]
    /\ UNCHANGED <<dmlVars, rstVars, auxVars>>

MtUpsert(k, v) ==
    LET r == mt_upsert(index, k, v) IN
    /\ index' = r.idx
    /\ ret' = None
    /\ lastIns' = [lastIns EXCEPT ![k] = None]
    /\ deleted' = [deleted EXCEPT ![k] = IF @ = "no" THEN "no" ELSE "upserted"]
    /\ UNCHANGED <<dmlVars, rstVars, auxVars>>

MtUpdate(k, v) ==
    LET r == mt_update(index, k, v) IN
    /\ index' = r.idx
    /\ ret' = Some(r.ret)
    /\ lastIns' = [lastIns EXCEPT ![k] = None]
    /\ UNCHANGED <<deleted, dmlVars, rstVars, auxVars>>

MtDelete(k) ==
    LET r == mt_delete(index, k) IN
    /\ index' = r.idx
    /\ ret' = Some(r.ret)
    /\ lastIns' = [lastIns EXCEPT ![k] = None]
    /\ deleted' = [deleted EXCEPT ![k] = IF r.ret THEN "yes" ELSE @]
    /\ UNCHANGED <<dmlVars, rstVars, auxVars>>

MtClear ==
    /\ index' = mt_clear(index)
    /\ ret' = None
    /\ lastIns' = NoKeys
    /\ UNCHANGED <<deleted, dmlVars, rstVars, auxVars>>

MtGet(k) ==
    /\ ret' = mt_get(index, k)
    /\ UNCHANGED <<index, lastIns, deleted, dmlVars, rstVars, auxVars>>

MtContains(k) ==
    /\ ret' = Some(mt_contains(index, k))
    /\ UNCHANGED <<index, lastIns, deleted, dmlVars, rstVars, auxVars>>

NextIndex ==
    \/ \E k \in Keys, v \in Vals : MtInsert(k, v)
    \/ \E k \in Keys, v \in Vals : MtUpsert(k, v)
    \/ \E k \in Keys, v \in Vals : MtUpdate(k, v)
    \/ \E k \in Keys : MtDelete(k)
    \/ MtClear
    \/ \E k \in Keys : MtGet(k)
    \/ \E k \in Keys : MtContains(k)

SpecIndex == InitIndex /\ [][NextIndex]_vars

\* C6: after a successful mt_insert(k, v), while no later mutation targets k,
\* mt_get(k) returns v and mt_contains(k) is true, whatever is done to other keys
C6_InsertedStaysVisible ==
    \A k \in Keys : lastIns[k] # None =>
        /\ mt_get(index, k) = lastIns[k]
        /\ mt_contains(index, k)

\* C6 witness: k was inserted, then another key was deleted, and k is still visible
C6_Witness ==
    \E k \in Keys, j \in Keys :
        /\ k # j
        /\ lastIns[k] # None
        /\ deleted[j] = "yes"
        /\ ~mt_contains(index, j)

\* C7 as stated: after a successful mt_delete(k), mt_contains(k) is false until
\* the next mt_insert of k
C7_DeletedUntilInsert ==
    \A k \in Keys : deleted[k] # "no" => ~mt_contains(index, k)

\* C7 amended: after a successful mt_delete(k), mt_contains(k) is false until
\* the next mt_insert or mt_upsert of k
C7_DeletedUntilInsertOrUpsert ==
    \A k \in Keys : deleted[k] = "yes" => ~mt_contains(index, k)

\* C7 witness: a key that mt_delete removed is absent while another key is held
C7_Witness ==
    \E k \in Keys, j \in Keys :
        /\ deleted[k] = "yes"
        /\ ~mt_contains(index, k)
        /\ mt_contains(index, j)

(***************************************************************************)
(* The model (table) the statements run against: an ordered sequence of    *)
(* fields, one of them the primary key.                                    *)
(***************************************************************************)
Fields == << [name |-> "id", class |-> "uint"], [name |-> "name", class |-> "str"] >>

p_key == "id"

\* DeltaState.schema_current_version: no DDL runs in this model
schema_current_version == 0

\* Datacells: unsigned integers and strings (a string is named by its number)
UIntCell(n) == [class |-> "uint", v |-> n]
StrCell(n) == [class |-> "str", v |-> n]
NullCell == [class |-> "null", v |-> 0]
Cells == {UIntCell(n) : n \in Keys} \cup {StrCell(n) : n \in Strs}

\* DcFieldIndex: a map from field names to cells
EmptyData == [n \in {} |-> NullCell]

st_insert(map, key, val) ==
    IF key \in DOMAIN map
    THEN [map |-> map, ret |-> FALSE]
    ELSE [map |-> [n \in DOMAIN map \cup {key} |-> IF n = key THEN val ELSE map[n]], ret |-> TRUE]

st_remove(map, key) ==
    IF key \in DOMAIN map
    THEN [map |-> [n \in DOMAIN map \ {key} |-> map[n]], ret |-> Some(map[key])]
    ELSE [map |-> map, ret |-> None]

\* Field::vt_data_fpath: the cell is accepted when it has the field's class
vt_data_fpath(field, data) == data.class = field.class

\* InsertData: Ordered(tuple) holds the values in order; Map(map) holds named
\* values, and `entries` is the order in which map.into_iter() yields them
InsertOrdered(tuple) == [kind |-> "Ordered", tuple |-> tuple, entries |-> <<>>]
InsertMap(entries) == [kind |-> "Map", tuple |-> <<>>, entries |-> entries]

column_count(insert) ==
    IF insert.kind = "Ordered" THEN Len(insert.tuple) ELSE Len(insert.entries)

RECURSIVE prepare_ordered_NoTypeCheck(_, _, _)
prepare_ordered_NoTypeCheck(fields, tuple, st) ==
    IF (Len(tuple) - (st.i - 1) # 0) /\ st.okay
    THEN LET data == tuple[st.i]
             field == fields[st.i]
             ins == st_insert(st.prepared_data, field.name, data)
         IN prepare_ordered_NoTypeCheck(fields, tuple,
                [i |-> st.i + 1,
                 okay |-> st.okay /\ ins.ret,
                 prepared_data |-> ins.map])
    ELSE st

\* the loop of the Ordered arm: st = [i, okay, prepared_data]
RECURSIVE prepare_ordered(_, _, _)
prepare_ordered(fields, tuple, st) ==
    IF (Len(tuple) - (st.i - 1) # 0) /\ st.okay
    THEN LET data == tuple[st.i]
             field == fields[st.i]
             ins == st_insert(st.prepared_data, field.name, data)
         IN prepare_ordered(fields, tuple,
                [i |-> st.i + 1,
                 okay |-> st.okay /\ vt_data_fpath(field, data) /\ ins.ret,
                 prepared_data |-> ins.map])
    ELSE st

Min2(a, b) == IF a < b THEN a ELSE b

RECURSIVE prepare_map_NoNameCheck(_, _, _)
prepare_map_NoNameCheck(fields, entries, st) ==
    IF (Min2(Len(fields), Len(entries)) - (st.i - 1) # 0) /\ st.okay
    THEN LET model_field == fields[st.i]
             this_field_data == entries[st.i][2]
             ins == st_insert(st.prepared_data, model_field.name, this_field_data)
         IN prepare_map_NoNameCheck(fields, entries,
                [i |-> st.i + 1,
                 okay |-> st.okay /\ vt_data_fpath(model_field, this_field_data),
                 prepared_data |-> ins.map])
    ELSE st

\* the loop of the Map arm: st = [i, okay, prepared_data]; i - 1 is `inserted`
RECURSIVE prepare_map(_, _, _)
prepare_map(fields, entries, st) ==
    IF (Min2(Len(fields), Len(entries)) - (st.i - 1) # 0) /\ st.okay
    THEN LET model_field == fields[st.i]
             this_field_key == entries[st.i][1]
             this_field_data == entries[st.i][2]
             ins == st_insert(st.prepared_data, model_field.name, this_field_data)
         IN prepare_map(fields, entries,
                [i |-> st.i + 1,
                 okay |-> st.okay /\ vt_data_fpath(model_field, this_field_data)
                                  /\ model_field.name = this_field_key,
                 prepared_data |-> ins.map])
    ELSE st

prepare_insert(fields, pkey, insert) ==
    LET okay0 == Len(fields) = column_count(insert)
        st0 == [i |-> 1, okay |-> okay0, prepared_data |-> EmptyData]
        st == IF insert.kind = "Ordered"
              THEN prepare_ordered(fields, insert.tuple, st0)
              ELSE LET m == prepare_map(fields, insert.entries, st0)
                   IN [m EXCEPT !.okay = m.okay /\ (m.i - 1 = Len(fields))]
        rem == st_remove(st.prepared_data, pkey)
        okay == st.okay /\ rem.ret # None
    IN IF okay
       THEN [ok |-> TRUE, pk |-> rem.ret[1], data |-> rem.map]
       ELSE [ok |-> FALSE, pk |-> NullCell, data |-> EmptyData]

\* the statements the clients send
FieldNames == {"id", "name", "Name"}
Distinct(s) == \A i, j \in DOMAIN s : i # j => s[i][1] # s[j][1]
OrderedPayloads ==
    {InsertOrdered(s) : s \in UNION {[1..n -> Cells] : n \in 1..(Len(Fields) + 1)}}
MapPayloads ==
    {InsertMap(s) : s \in {e \in UNION {[1..n -> FieldNames \X Cells] : n \in 1..Len(Fields)} : Distinct(e)}}
InsertPayloads == OrderedPayloads \cup MapPayloads

\* what prepare_insert makes of them
PreparedInserts == {prepare_insert(Fields, p_key, p) : p \in InsertPayloads}

\* Row::new
Row_new(pk, data, schema_version, txn_revised_data) ==
    [pk |-> pk, data |-> data, schema_version |-> schema_version,
     data_version |-> txn_revised_data, restored_txn |-> 0]

\* Row::new_restored
Row_new_restored(pk, data, schema_version, txn_revised_data, restored_txn) ==
    [pk |-> pk, data |-> data, schema_version |-> schema_version,
     data_version |-> txn_revised_data, restored_txn |-> restored_txn]

\* DeltaState::create_new_data_delta_version: the value after the increment
create_new_data_delta_version(ddv) == ddv + 1

\* DeltaState::append_new_data_delta_with
append_new_data_delta_with(q, kind, row, version) ==
    Append(q, [kind |-> kind, row |-> row, version |-> version])

(***************************************************************************)
(* SpecDml: every thread runs one insert statement, and one more thread    *)
(* one delete statement. insert is cut at its three shared accesses: the   *)
(* fetch-add of the version counter, the mt_insert and the push on the     *)
(* delta queue. The change-direction latch is taken in shared mode by      *)
(* every DML statement and excludes none of them.                          *)
(***************************************************************************)
Idle == [pc |-> "idle", op |-> "none", pk |-> NullCell, data |-> EmptyData,
         new_version |-> 0, res |-> "none", placed |-> FALSE]

\* the local `row` of insert
row(t) == Row_new(thr[t].pk, thr[t].data, schema_current_version, thr[t].new_version)

InitDml ==
    /\ index = {}
    /\ ret = None
    /\ lastIns = NoKeys
    /\ deleted = [k \in Keys |-> "no"]
    /\ data_delta_version = 0
    /\ queue = <<>>
    /\ thr = [t \in AllThreads |-> Idle]
    /\ rstatus = "serving"
    /\ pending_delete = <<>>
    /\ bpos = 0
    /\ used = {}
    /\ ref = NoKeys
    /\ AuxIdle

\* insert, line 51: prepare_insert(mdl, insert.data())?
InsertPrepare(t) ==
    /\ thr[t].pc = "idle"
    /\ \E p \in PreparedInserts :
         thr' = [thr EXCEPT ![t] =
                    IF p.ok
                    THEN [@ EXCEPT !.pc = "ins_version", !.op = "insert", !.pk = p.pk, !.data = p.data]
                    ELSE [@ EXCEPT !.pc = "done", !.op = "insert", !.res = "ValidationError"]]
    /\ UNCHANGED <<index, idxHist, data_delta_version, queue, rstVars, auxVars>>

InsertVersion_NoAdvance(t) ==
    /\ thr[t].pc = "ins_version"
    /\ thr' = [thr EXCEPT ![t] = [@ EXCEPT !.pc = "ins_index",
                                            !.new_version = create_new_data_delta_version(data_delta_version)]]
    /\ UNCHANGED <<index, idxHist, data_delta_version, queue, rstVars, auxVars>>

InsertVersion_StampAhead(t) ==
    /\ thr[t].pc = "ins_version"
    /\ data_delta_version' = create_new_data_delta_version(data_delta_version)
    /\ thr' = [thr EXCEPT ![t] = [@ EXCEPT !.pc = "ins_index", !.new_version = data_delta_version' + 1]]
    /\ UNCHANGED <<index, idxHist, queue, rstVars, auxVars>>

\* insert, lines 52-57: the latch, the guard, the new version and the row
InsertVersion(t) ==
    /\ thr[t].pc = "ins_version"
    /\ data_delta_version' = create_new_data_delta_version(data_delta_version)
    /\ thr' = [thr EXCEPT ![t] = [@ EXCEPT !.pc = "ins_index", !.new_version = data_delta_version']]
    /\ UNCHANGED <<index, idxHist, queue, rstVars, auxVars>>

InsertIndex_DeltaOnDuplicate(t) ==
    /\ thr[t].pc = "ins_index"
    /\ LET r == mt_insert(index, row(t).pk, row(t)) IN
         /\ index' = r.idx
         /\ thr' = [thr EXCEPT ![t] = [@ EXCEPT !.pc = "ins_append", !.placed = r.ret]]
    /\ UNCHANGED <<idxHist, data_delta_version, queue, rstVars, auxVars>>

InsertIndex_DeltaBeforeCheck(t) ==
    /\ thr[t].pc = "ins_index"
    /\ LET r == mt_insert(index, row(t).pk, row(t)) IN
         /\ index' = r.idx
         /\ queue' = IF r.ret THEN queue
                     ELSE append_new_data_delta_with(queue, "Insert", row(t), thr[t].new_version)
         /\ thr' = [thr EXCEPT ![t] =
                      IF r.ret
                      THEN [@ EXCEPT !.pc = "ins_append", !.placed = TRUE]
                      ELSE [@ EXCEPT !.pc = "done", !.res = "Duplicate"]]
    /\ UNCHANGED <<idxHist, data_delta_version, rstVars, auxVars>>

\* insert, lines 58 and 62-64: mt_insert, and Duplicate when it returns false
InsertIndex(t) ==
    /\ thr[t].pc = "ins_index"
    /\ LET r == mt_insert(index, row(t).pk, row(t)) IN
         /\ index' = r.idx
         /\ thr' = [thr EXCEPT ![t] =
                      IF r.ret
                      THEN [@ EXCEPT !.pc = "ins_append", !.placed = TRUE]
                      ELSE [@ EXCEPT !.pc = "done", !.res = "Duplicate"]]
    /\ UNCHANGED <<idxHist, data_delta_version, queue, rstVars, auxVars>>

\* insert, lines 60-61: the delta of the new version, and Ok
InsertAppend(t) ==
    /\ thr[t].pc = "ins_append"
    /\ queue' = append_new_data_delta_with(queue, "Insert", row(t), thr[t].new_version)
    /\ thr' = [thr EXCEPT ![t] = [@ EXCEPT !.pc = "done", !.res = "Ok"]]
    /\ UNCHANGED <<index, idxHist, data_delta_version, rstVars, auxVars>>

\* delete follows the skeleton of insert: a statement that names a key
DeleteBegin(t) ==
    /\ thr[t].pc = "idle"
    /\ \E k \in Keys :
         thr' = [thr EXCEPT ![t] = [@ EXCEPT !.pc = "del_version", !.op = "delete", !.pk = UIntCell(k)]]
    /\ UNCHANGED <<index, idxHist, data_delta_version, queue, rstVars, auxVars>>

DeleteVersion(t) ==
    /\ thr[t].pc = "del_version"
    /\ data_delta_version' = create_new_data_delta_version(data_delta_version)
    /\ thr' = [thr EXCEPT ![t] = [@ EXCEPT !.pc = "del_index", !.new_version = data_delta_version']]
    /\ UNCHANGED <<index, idxHist, queue, rstVars, auxVars>>

DeleteIndex(t) ==
    /\ thr[t].pc = "del_index"
    /\ LET r == mt_delete(index, thr[t].pk) IN
         /\ index' = r.idx
         /\ thr' = [thr EXCEPT ![t] =
                      IF r.ret
                      THEN [@ EXCEPT !.pc = "del_append", !.placed = TRUE]
                      ELSE [@ EXCEPT !.pc = "done", !.res = "NotFound"]]
    /\ UNCHANGED <<idxHist, data_delta_version, queue, rstVars, auxVars>>

DeleteAppend(t) ==
    /\ thr[t].pc = "del_append"
    /\ queue' = append_new_data_delta_with(queue, "Delete", row(t), thr[t].new_version)
    /\ thr' = [thr EXCEPT ![t] = [@ EXCEPT !.pc = "done", !.res = "Ok"]]
    /\ UNCHANGED <<index, idxHist, data_delta_version, rstVars, auxVars>>

NextDml ==
    \/ \E t \in Threads : InsertPrepare(t)
    \/ \E t \in Threads : InsertVersion(t)
    \/ \E t \in Threads : InsertIndex(t)
    \/ \E t \in Threads : InsertAppend(t)
    \/ DeleteBegin(Deleter)
    \/ DeleteVersion(Deleter)
    \/ DeleteIndex(Deleter)
    \/ DeleteAppend(Deleter)

SpecDml == InitDml /\ [][NextDml]_vars

\* the deltas of kind Insert that the queue holds for the row of thread t
InsertDeltasOf(t) ==
    {i \in DOMAIN queue : queue[i].kind = "Insert" /\ queue[i].row = row(t)}

\* C3: an insert that passed validation goes on to success exactly when the index
\* holds no row for its key at the moment of mt_insert; when a row is there it
\* returns Duplicate and the index (the existing row, its data and stamps) is unchanged
C3_InsertOkIffAbsent ==
    [][\A t \in Threads :
          /\ (thr[t].pc = "ins_index" /\ thr'[t].pc # "ins_index") =>
                LET held == mt_contains(index, thr[t].pk) IN
                /\ (thr'[t].pc = "ins_append") <=> ~held
                /\ held => (thr'[t].res = "Duplicate" /\ thr'[t].pc = "done" /\ index' = index)
                /\ ~held => mt_get(index', thr[t].pk) = Some(row(t))
          /\ (thr'[t].res = "Ok" /\ thr[t].res # "Ok") => (thr[t].pc = "ins_append" /\ thr[t].placed)
      ]_vars

\* C3 witness: an insert ended in Duplicate while the row of another insert holds the key
C3_Witness ==
    \E t \in Threads, u \in Threads :
        /\ t # u
        /\ thr[t].pc = "done" /\ thr[t].res = "Duplicate"
        /\ thr[u].res = "Ok"
        /\ mt_get(index, thr[t].pk) = Some(row(u))

\* C4: every successful insert has exactly one (Insert, row, v) delta in the queue,
\* with v the version it obtained and the data_version of the row it placed; every
\* Insert delta belongs to an insert that placed that very row in the index
C4_OneDeltaPerInsert ==
    /\ \A t \in Threads : (thr[t].pc = "done" /\ thr[t].res = "Ok") =>
          /\ Cardinality(InsertDeltasOf(t)) = 1
          /\ \A i \in InsertDeltasOf(t) : queue[i].version = thr[t].new_version
          /\ thr[t].placed
    /\ \A i \in DOMAIN queue : queue[i].kind = "Insert" =>
          /\ queue[i].version = queue[i].row.data_version
          /\ \E t \in Threads : thr[t].placed /\ thr[t].res = "Ok" /\ row(t) = queue[i].row
    /\ \A e \in index : \E t \in Threads :
          thr[t].placed /\ e.val = row(t) /\ e.val.data_version = thr[t].new_version
    /\ \A i, j \in DOMAIN queue : queue[i].version = queue[j].version => i = j

\* C4 witness: two inserts are finished, one of them in Duplicate, and the queue
\* holds the single delta of the other
C4_Witness ==
    \E t \in Threads, u \in Threads :
        /\ thr[t].pc = "done" /\ thr[t].res = "Ok"
        /\ thr[u].pc = "done" /\ thr[u].res = "Duplicate"
        /\ Len(queue) = 1
        /\ queue[1].row = row(t)

\* C5: no step of an insert that ends in ValidationError or Duplicate changes the
\* index or the delta queue, and a failed insert never placed a row or queued a delta
C5_FailedInsertNoEffect ==
    [][\A t \in Threads :
          /\ (thr'[t] # thr[t] /\ thr'[t].res \in {"ValidationError", "Duplicate"}) =>
                (index' = index /\ queue' = queue)
          /\ (thr'[t] # thr[t] /\ thr'[t].pc = "ins_index") =>
                (index' = index /\ queue' = queue)
          /\ thr'[t].res \in {"ValidationError", "Duplicate"} =>
                (~thr'[t].placed /\ \A i \in DOMAIN queue' : queue'[i].version # thr'[t].new_version)
      ]_vars

\* C5 witness: one insert was rejected with ValidationError, and the index and the
\* queue hold what the other insert put there, nothing more
C5_Witness ==
    \E t \in Threads, u \in Threads :
        /\ thr[t].pc = "done" /\ thr[t].res = "ValidationError"
        /\ thr[u].pc = "done" /\ thr[u].res = "Ok"
        /\ thr[Deleter].pc = "idle"
        /\ index = {E_new(row(u).pk, row(u))}
        /\ Len(queue) = 1

\* the inserts that passed validation for key k
InsertsOf(k) == {t \in Threads : thr[t].op = "insert" /\ thr[t].pk = UIntCell(k)}

\* C9: when the inserts of the same key, on an index that did not hold it and with
\* no delete of that key, have all returned, exactly one returned Ok, the others
\* Duplicate, and the index holds the row of the successful one
C9_OneWinner ==
    \A k \in Keys :
        (/\ InsertsOf(k) # {}
         /\ \A t \in InsertsOf(k) : thr[t].pc = "done"
         /\ thr[Deleter].pk # UIntCell(k)) =>
            /\ Cardinality({t \in InsertsOf(k) : thr[t].res = "Ok"}) = 1
            /\ \A t \in InsertsOf(k) : thr[t].res \in {"Ok", "Duplicate"}
            /\ \A t \in InsertsOf(k) : thr[t].res = "Ok" => mt_get(index, UIntCell(k)) = Some(row(t))

\* C9 witness: two inserts of one key overlapped (the one that took the later
\* version reached the index first) and both returned
C9_Witness ==
    \E t \in Threads, u \in Threads :
        /\ thr[t].pk = thr[u].pk
        /\ thr[t].pc = "done" /\ thr[t].res = "Ok"
        /\ thr[u].pc = "done" /\ thr[u].res = "Duplicate"
        /\ thr[t].new_version > thr[u].new_version
        /\ thr[Deleter].pc = "idle"

\* the completed writes to key k, and no statement on k under way
WritesOf(k) ==
    {t \in AllThreads : thr[t].pc = "done" /\ thr[t].res = "Ok" /\ thr[t].pk = UIntCell(k)}
Quiet(k) == \A t \in AllThreads : thr[t].pk = UIntCell(k) => thr[t].pc = "done"
LastWrite(k) == CHOOSE t \in WritesOf(k) : \A u \in WritesOf(k) : thr[u].new_version <= thr[t].new_version

C11_QueueInVersionOrder ==
    \A i, j \in DOMAIN queue : queue[i].version < queue[j].version => i < j

\* the statements that have drawn their version from the counter
Drawn == {t \in AllThreads : thr[t].new_version # 0}

\* C12: no version is handed out twice and the counter never falls behind: the
\* statements that reached create_new_data_delta_version, whether they went on to
\* Ok or to Duplicate, hold pairwise different versions, and the counter stands at
\* the number of versions handed out, which is the largest of them
C12_VersionsUnique ==
    /\ \A t, u \in Drawn : thr[t].new_version = thr[u].new_version => t = u
    /\ \A t \in Drawn : thr[t].new_version \in 1..data_delta_version
    /\ data_delta_version = Cardinality(Drawn)
    /\ \A t \in AllThreads : thr[t].pc \in {"ins_index", "ins_append", "del_index", "del_append"} => t \in Drawn
    /\ \A t \in AllThreads : thr[t].res \in {"Ok", "Duplicate", "NotFound"} => t \in Drawn

\* C12 witness: two inserts drew versions, one returned Ok and the other Duplicate
C12_Witness ==
    \E t \in Threads, u \in Threads :
        /\ thr[t].res = "Ok" /\ thr[u].res = "Duplicate"
        /\ thr[t].new_version # thr[u].new_version
        /\ data_delta_version = 2

\* C13 as stated: the data_version of every row that insert placed in the index
\* is strictly less than the current value of the counter
C13_RowVersionBelowCounter ==
    \A e \in index : e.val.data_version < data_delta_version

\* C13 as amended: the data_version of every row that insert placed in the index
\* is at most the current value of the counter (and equals it until the next
\* version is drawn)
C13_RowVersionAtMostCounter ==
    /\ \A e \in index : e.val.data_version \in 1..data_delta_version
    /\ \A t \in Threads : thr[t].placed => thr[t].new_version <= data_delta_version

\* C13 witness: a row is visible in the index whose data_version is the very value
\* of the counter
C13_Witness ==
    \E e \in index : e.val.data_version = data_delta_version

(***************************************************************************)
(* SpecPrepare: prepare_insert applied to one payload. The model is the    *)
(* two-column model with the primary key first or last; the payload is a   *)
(* tuple of values or a sequence of named values in the order in which the *)
(* payload's hash map yields them.                                         *)
(***************************************************************************)
FieldsPkLast == << Fields[2], Fields[1] >>
Models == {Fields, FieldsPkLast}

InitPrepare ==
    /\ index = {}
    /\ ret = None
    /\ lastIns = NoKeys
    /\ deleted = [k \in Keys |-> "no"]
    /\ data_delta_version = 0
    /\ queue = <<>>
    /\ thr = [t \in AllThreads |-> Idle]
    /\ rstatus = "serving"
    /\ pending_delete = <<>>
    /\ bpos = 0
    /\ used = {}
    /\ ref = NoKeys
    /\ mdl \in Models
    /\ stmt \in InsertPayloads
    /\ prep = None
    /\ DecIdle
    /\ AuthIdle

\* insert, line 51: prepare_insert(mdl, insert.data())
PrepareInsert ==
    /\ prep = None
    /\ prep' = Some(prepare_insert(mdl, p_key, stmt))
    /\ UNCHANGED <<index, idxHist, dmlVars, rstVars, mdl, stmt, decVars, authVars>>

NextPrepare == PrepareInsert

SpecPrepare == InitPrepare /\ [][NextPrepare]_vars

\* the names of the model's fields, and the field of a name
NamesOf(fields) == {fields[i].name : i \in DOMAIN fields}
FieldOf(fields, name) == fields[CHOOSE i \in DOMAIN fields : fields[i].name = name]
\* the position of the primary key among the fields
PkPos(fields) == CHOOSE i \in DOMAIN fields : fields[i].name = p_key

\* C14: a positional insert is accepted exactly when it has as many values as the
\* model has fields and every value passes the type check of the field at the same
\* position; otherwise it is rejected with ValidationError
C14_OrderedValidated ==
    (prep # None /\ stmt.kind = "Ordered") =>
        (prep[1].ok <=>
            /\ Len(stmt.tuple) = Len(mdl)
            /\ \A i \in DOMAIN mdl : vt_data_fpath(mdl[i], stmt.tuple[i]))

\* C14 witness: a tuple of the right length was rejected for the type of a value
C14_Witness ==
    /\ prep # None /\ stmt.kind = "Ordered"
    /\ Len(stmt.tuple) = Len(mdl)
    /\ ~prep[1].ok

\* a keyed payload that names exactly the model's fields, each with a value of the
\* field's type
WellNamed(fields, entries) ==
    /\ {entries[i][1] : i \in DOMAIN entries} = NamesOf(fields)
    /\ \A i \in DOMAIN entries : vt_data_fpath(FieldOf(fields, entries[i][1]), entries[i][2])

\* C15: a keyed insert whose names are exactly the model's field names, with valid
\* values, succeeds, and one with any differing name fails with ValidationError,
\* in whatever order the payload map yields its entries
C15_KeyedByName ==
    (prep # None /\ stmt.kind = "Map") =>
        /\ WellNamed(mdl, stmt.entries) => prep[1].ok
        /\ (\E i \in DOMAIN stmt.entries : stmt.entries[i][1] \notin NamesOf(mdl)) => ~prep[1].ok

\* what holds of the keyed insert in every iteration order: it succeeds exactly
\* when the map yields its entries in the order of the model's fields, each
\* under the field's name and with a value of the field's type
C15_KeyedInSchemaOrder ==
    (prep # None /\ stmt.kind = "Map") =>
        (prep[1].ok <=>
            /\ Len(stmt.entries) = Len(mdl)
            /\ \A i \in DOMAIN mdl :
                  /\ stmt.entries[i][1] = mdl[i].name
                  /\ vt_data_fpath(mdl[i], stmt.entries[i][2]))

\* the value the payload supplies for the primary key field, if any
Supplied(fields, insert) ==
    IF insert.kind = "Ordered"
    THEN IF PkPos(fields) \in DOMAIN insert.tuple THEN Some(insert.tuple[PkPos(fields)]) ELSE None
    ELSE IF \E i \in DOMAIN insert.entries : insert.entries[i][1] = p_key
         THEN Some(insert.entries[CHOOSE i \in DOMAIN insert.entries : insert.entries[i][1] = p_key][2])
         ELSE None

\* C16: whenever prepare_insert returns Ok((pk, data)), pk is the value supplied
\* for the primary key field and the keys of data are exactly the model's field
\* names other than p_key; a payload with no value for p_key gets ValidationError
C16_PkSplitOff ==
    prep # None =>
        /\ prep[1].ok =>
              /\ Some(prep[1].pk) = Supplied(mdl, stmt)
              /\ DOMAIN prep[1].data = NamesOf(mdl) \ {p_key}
        /\ Supplied(mdl, stmt) = None => ~prep[1].ok

\* C16 witness: a keyed insert into the model whose primary key is its last field
\* returned Ok
C16_Witness ==
    /\ prep # None /\ prep[1].ok
    /\ stmt.kind = "Map"
    /\ mdl = FieldsPkLast

(***************************************************************************)
(* The restore driver. A last_batch event carries txn_id, pk, kind and, for   *)
(* Insert and Update, the cells of the non-primary-key columns.            *)
(***************************************************************************)
DecodedBatchEvent_new(txn_id, pk, kind, cells) ==
    [txn_id |-> txn_id, pk |-> pk, kind |-> kind, cells |-> cells]

\* the events a decoded batch can hold with the given txn_id: read_batch, lines
\* 380-387, reads column_cnt cells per row, the count the batch header gives,
\* which apply_batch never compares with the model's field count
NonPkCount == Cardinality({i \in DOMAIN Fields : Fields[i].name # p_key})
RowCells == UNION {[1..n -> {StrCell(v) : v \in Strs}] : n \in 0..(NonPkCount + 1)}
EventsWith(txn_id) ==
    {DecodedBatchEvent_new(txn_id, UIntCell(k), "Delete", <<>>) : k \in Keys}
    \cup {DecodedBatchEvent_new(txn_id, UIntCell(k), kind, c) :
            k \in Keys, kind \in {"Insert", "Update"}, c \in RowCells}

\* irm.fields().stseq_ord_key().filter(|key| key != m.p_key())
RECURSIVE non_pk_keys(_, _)
non_pk_keys(fields, pkey) ==
    IF fields = <<>> THEN <<>>
    ELSE IF Head(fields).name # pkey
         THEN <<Head(fields).name>> \o non_pk_keys(Tail(fields), pkey)
         ELSE non_pk_keys(Tail(fields), pkey)

\* apply_batch, lines 238-246: the zip of the field names with the event's cells
RECURSIVE zip_into_data(_, _, _)
zip_into_data(names, new_row, data) ==
    IF names = <<>> \/ new_row = <<>> THEN data
    ELSE zip_into_data(Tail(names), Tail(new_row), st_insert(data, Head(names), Head(new_row)).map)

apply_insert_update_NoTxnCheck(idx, ev, schema_version) ==
    LET data == zip_into_data(non_pk_keys(Fields, p_key), ev.cells, EmptyData)
        new == Row_new_restored(ev.pk, data, schema_version, 0, ev.txn_id)
    IN mt_insert(mt_delete(idx, ev.pk).idx, ev.pk, new).idx

\* apply_batch, lines 226-260: an Insert or Update event
apply_insert_update(idx, ev, schema_version) ==
    LET got == mt_get(idx, ev.pk) IN
    IF got # None /\ got[1].restored_txn > ev.txn_id
    THEN idx
    ELSE LET data == zip_into_data(non_pk_keys(Fields, p_key), ev.cells, EmptyData)
             new == Row_new_restored(ev.pk, data, schema_version, 0, ev.txn_id)
         IN mt_insert(mt_delete(idx, ev.pk).idx, ev.pk, new).idx

apply_delete_KeepLast(pd, ev) ==
    [k \in DOMAIN pd \cup {ev.pk} |-> IF k = ev.pk THEN ev.txn_id ELSE pd[k]]

\* apply_batch, lines 261-277: a Delete event
apply_delete(pd, ev) ==
    IF ev.pk \in DOMAIN pd
    THEN IF pd[ev.pk] > ev.txn_id THEN pd ELSE [pd EXCEPT ![ev.pk] = ev.txn_id]
    ELSE [k \in DOMAIN pd \cup {ev.pk} |-> IF k = ev.pk THEN ev.txn_id ELSE pd[k]]

\* apply_batch, lines 280-295: one entry of pending_delete
\* [idx, panic]: the index afterwards, and whether unreachable!() was hit
apply_pending(idx, pk, txn_id) ==
    LET got == mt_get(idx, pk) IN
    IF got # None
    THEN IF got[1].restored_txn > txn_id
         THEN [idx |-> idx, panic |-> FALSE]
         ELSE [idx |-> mt_delete(idx, pk).idx, panic |-> FALSE]
    ELSE [idx |-> idx, panic |-> TRUE]

(***************************************************************************)
(* SpecServer: at boot read_data_batch_into_model replays a well-formed    *)
(* journal (every batch decodes, the txn_ids are pairwise different), one  *)
(* event of the loops of apply_batch per step; then insert statements are  *)
(* served, one at a time.                                                  *)
(***************************************************************************)
InitServer ==
    /\ index = {}
    /\ ret = None
    /\ lastIns = NoKeys
    /\ deleted = [k \in Keys |-> "no"]
    /\ data_delta_version = 0
    /\ queue = <<>>
    /\ thr = <<>>
    /\ rstatus = "idle"
    /\ pending_delete = <<>>
    /\ bpos = 0
    /\ used = {}
    /\ ref = NoKeys
    /\ AuxIdle

\* the event of largest txn_id seen for the key of ev
NoteEvent(ev) ==
    [ref EXCEPT ![ev.pk.v] = IF @ = None \/ @[1].txn_id < ev.txn_id THEN Some(ev) ELSE @]

\* read_all_batches_and_for_each, line 180, and apply_batch, lines 219-222
BeginBatch ==
    /\ rstatus = "idle"
    /\ bpos < MaxBatches
    /\ rstatus' = "events"
    /\ pending_delete' = <<>>
    /\ UNCHANGED <<index, idxHist, dmlVars, bpos, used, ref, auxVars>>

\* one turn of the loop over the events, for an Insert or Update event
ApplyInsertUpdate(ev) ==
    /\ rstatus = "events"
    /\ ev.kind \in {"Insert", "Update"}
    /\ index' = apply_insert_update(index, ev, schema_current_version)
    /\ used' = used \cup {ev.txn_id}
    /\ ref' = NoteEvent(ev)
    /\ UNCHANGED <<idxHist, dmlVars, rstatus, pending_delete, bpos, auxVars>>

\* one turn of the loop over the events, for a Delete event
ApplyDelete(ev) ==
    /\ rstatus = "events"
    /\ ev.kind = "Delete"
    /\ pending_delete' = apply_delete(pending_delete, ev)
    /\ used' = used \cup {ev.txn_id}
    /\ ref' = NoteEvent(ev)
    /\ UNCHANGED <<index, idxHist, dmlVars, rstatus, bpos, auxVars>>

\* the loop over the events is through
EndEvents ==
    /\ rstatus = "events"
    /\ rstatus' = "pending"
    /\ UNCHANGED <<index, idxHist, dmlVars, pending_delete, bpos, used, ref, auxVars>>

\* one turn of the loop over pending_delete, in the order the HashMap yields
ApplyPending(pk) ==
    /\ rstatus = "pending"
    /\ pk \in DOMAIN pending_delete
    /\ LET r == apply_pending(index, pk, pending_delete[pk]) IN
         /\ index' = r.idx
         /\ rstatus' = IF r.panic THEN "panic" ELSE "pending"
    /\ pending_delete' = [k \in DOMAIN pending_delete \ {pk} |-> pending_delete[k]]
    /\ UNCHANGED <<idxHist, dmlVars, bpos, used, ref, auxVars>>

\* apply_batch, line 296: Ok(())
EndBatch ==
    /\ rstatus = "pending"
    /\ DOMAIN pending_delete = {}
    /\ rstatus' = "idle"
    /\ bpos' = bpos + 1
    /\ UNCHANGED <<index, idxHist, dmlVars, pending_delete, used, ref, auxVars>>

\* read_all_batches_and_for_each, lines 183-187: the close marker, then EOF
RestoreOk ==
    /\ rstatus = "idle"
    /\ rstatus' = "ok"
    /\ UNCHANGED <<index, idxHist, dmlVars, pending_delete, bpos, used, ref, auxVars>>

\* the driver is dropped and the model goes into service
Serve ==
    /\ rstatus = "ok"
    /\ rstatus' = "serving"
    /\ bpos' = 0
    /\ used' = {}
    /\ ref' = NoKeys
    /\ UNCHANGED <<index, idxHist, dmlVars, pending_delete, auxVars>>

Insert_VersionOnSuccess(p) ==
    /\ rstatus = "serving"
    /\ data_delta_version < MaxInserts
    /\ IF ~p.ok
       THEN /\ ret' = Some("ValidationError")
            /\ UNCHANGED <<index, data_delta_version, queue, auxVars>>
       ELSE LET new_version == create_new_data_delta_version(data_delta_version)
                new == Row_new(p.pk, p.data, schema_current_version, new_version)
                r == mt_insert(index, new.pk, new)
            IN /\ data_delta_version' = IF r.ret THEN new_version ELSE data_delta_version
               /\ index' = r.idx
               /\ queue' = IF r.ret
                           THEN append_new_data_delta_with(queue, "Insert", new, new_version)
                           ELSE queue
               /\ ret' = IF r.ret THEN Some("Ok") ELSE Some("Duplicate")
    /\ UNCHANGED <<lastIns, deleted, thr, rstVars, auxVars>>

\* insert, lines 49-66, run by one thread with no other statement under way
Insert(p) ==
    /\ rstatus = "serving"
    /\ data_delta_version < MaxInserts
    /\ IF ~p.ok
       THEN /\ ret' = Some("ValidationError")
            /\ UNCHANGED <<index, data_delta_version, queue, auxVars>>
       ELSE LET new_version == create_new_data_delta_version(data_delta_version)
                new == Row_new(p.pk, p.data, schema_current_version, new_version)
                r == mt_insert(index, new.pk, new)
            IN /\ data_delta_version' = new_version
               /\ index' = r.idx
               /\ queue' = IF r.ret
                           THEN append_new_data_delta_with(queue, "Insert", new, new_version)
                           ELSE queue
               /\ ret' = IF r.ret THEN Some("Ok") ELSE Some("Duplicate")
    /\ UNCHANGED <<lastIns, deleted, thr, rstVars, auxVars>>

NextServer ==
    \/ BeginBatch
    \/ \E t \in (1..MaxTxn) \ used : \E ev \in EventsWith(t) : ApplyInsertUpdate(ev)
    \/ \E t \in (1..MaxTxn) \ used : \E ev \in EventsWith(t) : ApplyDelete(ev)
    \/ EndEvents
    \/ \E k \in Keys : ApplyPending(UIntCell(k))
    \/ EndBatch
    \/ RestoreOk
    \/ Serve
    \/ \E p \in PreparedInserts : Insert(p)

SpecServer == InitServer /\ [][NextServer]_vars

\* what the journal's events, taken per key in increasing txn_id order, leave
MatchesReference ==
    \A k \in Keys :
        IF ref[k] = None \/ ref[k][1].kind = "Delete"
        THEN ~mt_contains(index, UIntCell(k))
        ELSE LET got == mt_get(index, UIntCell(k)) IN
             /\ got # None
             /\ got[1].restored_txn = ref[k][1].txn_id
             /\ got[1].data =
                    zip_into_data(non_pk_keys(Fields, p_key), ref[k][1].cells, EmptyData)

\* C1: restore of a valid journal, whatever the order of its batches, leaves the
\* index equal to the result of applying each key's events in txn_id order
C1_RestoreEqualsTxnOrder ==
    rstatus = "ok" => MatchesReference

\* C2: after apply_batch of a single batch, every key's outcome is the one of its
\* event of largest txn_id, whatever the order of the events in the batch
C2_BatchDecidedByLargestTxn ==
    /\ (bpos = 0 => rstatus # "panic")
    /\ ((bpos = 1 /\ rstatus = "idle") => MatchesReference)

\* C2, the part the code keeps: when apply_batch returns from a single batch,
\* every key's outcome is the one of its event of largest txn_id
C2_DecidedWhenReturned ==
    (bpos = 1 /\ rstatus = "idle") => MatchesReference

\* C8: in the index every key is held by at most one row
C8_UniqueKeys ==
    \A e1 \in index, e2 \in index : e1.key = e2.key => e1 = e2

\* C8 witness: restore replaced the row of a key by a newer one, and an insert for
\* that key ended in Duplicate while an insert of another key went through
C8_Witness ==
    /\ rstatus = "serving"
    /\ ret = Some("Duplicate")
    /\ Cardinality(index) = 2
    /\ \E e \in index : e.val.restored_txn > 1
    /\ \E e \in index : e.val.data_version > 0

(***************************************************************************)
(* The data batch journal, byte by byte. Bytes are 0..255 and the integers *)
(* of the file are 8 bytes, little-endian. The model keeps the low three   *)
(* bytes of a u64; every u64 of 2^24 and more is the one value Huge, which *)
(* is larger than every count and length of the model.                     *)
(***************************************************************************)
MARKER_ACTUAL_BATCH_EVENT == 161
MARKER_RECOVERY_EVENT == 162
MARKER_BATCH_CLOSED == 163
MARKER_BATCH_REOPEN == 164
MARKER_END_OF_BATCH == 165

\* the number of bytes attempt_recover_data_batch scans (4096 in the program,
\* scaled to the journals of the model)
RECOVERY_THRESHOLD == 3

\* sizeof!(u64)
SizeofU64 == 8

Huge == 16777216

u64_to_le(n) == <<n % 256, (n \div 256) % 256, (n \div 65536) % 256, 0, 0, 0, 0, 0>>

u64_from_le(b) ==
    IF \A i \in 4..SizeofU64 : b[i] = 0
    THEN b[1] + 256 * b[2] + 65536 * b[3]
    ELSE Huge

\* the discriminants of a cell on disk, and of a primary key
PersistTypeDscr ==
    [Null |-> 0, Bool |-> 1, UnsignedInt |-> 2, SignedInt |-> 3, Float |-> 4,
     Bin |-> 5, Str |-> 6, List |-> 7, Dict |-> 8]
TagUnique == [UnsignedInt |-> 0, SignedInt |-> 1, Bin |-> 2, Str |-> 3]

\* SCrc: the streaming checksum. The model's checksum is Adler-32: `a` is one plus
\* the sum of the bytes fed so far and `b` the sum of the values `a` took, both
\* modulo 65521; the sums over a block are taken by halving the block
CrcMod == 65521
SCrc_new == [a |-> 1, b |-> 0]

RECURSIVE SumBytes(_, _, _)
SumBytes(block, lo, hi) ==
    IF lo > hi THEN 0
    ELSE IF lo = hi THEN block[lo]
    ELSE SumBytes(block, lo, (lo + hi) \div 2) + SumBytes(block, (lo + hi) \div 2 + 1, hi)

\* the sum of the bytes, the i-th of them counted once for every byte from it on
RECURSIVE SumTails(_, _, _)
SumTails(block, lo, hi) ==
    IF lo > hi THEN 0
    ELSE IF lo = hi THEN (Len(block) - lo + 1) * block[lo]
    ELSE SumTails(block, lo, (lo + hi) \div 2) + SumTails(block, (lo + hi) \div 2 + 1, hi)

recompute_with_new_var_block(cs, block) ==
    [a |-> (cs.a + SumBytes(block, 1, Len(block))) % CrcMod,
     b |-> (cs.b + Len(block) * cs.a + SumTails(block, 1, Len(block))) % CrcMod]

\* SCrc::finish().to_le_bytes()
checksum_to_le(cs) == <<cs.a % 256, cs.a \div 256, cs.b % 256, cs.b \div 256, 0, 0, 0, 0>>

\* core::str::from_utf8(..).is_ok()
IsCont(b) == b \in 128..191
RECURSIVE from_utf8_ok(_)
from_utf8_ok(d) ==
    IF d = <<>> THEN TRUE
    ELSE IF d[1] < 128 THEN from_utf8_ok(Tail(d))
    ELSE IF d[1] \in 194..223
         THEN Len(d) >= 2 /\ IsCont(d[2]) /\ from_utf8_ok(SubSeq(d, 3, Len(d)))
    ELSE IF d[1] \in 224..239
         THEN /\ Len(d) >= 3 /\ IsCont(d[2]) /\ IsCont(d[3])
              /\ (d[1] = 224 => d[2] >= 160)
              /\ (d[1] = 237 => d[2] <= 159)
              /\ from_utf8_ok(SubSeq(d, 4, Len(d)))
    ELSE IF d[1] \in 240..244
         THEN /\ Len(d) >= 4 /\ IsCont(d[2]) /\ IsCont(d[3]) /\ IsCont(d[4])
              /\ (d[1] = 240 => d[2] >= 144)
              /\ (d[1] = 244 => d[2] <= 143)
              /\ from_utf8_ok(SubSeq(d, 5, Len(d)))
    ELSE FALSE

(***************************************************************************)
(* SDSSFileTrackedReader over the file f: `cur` is the cursor of the file  *)
(* underneath, `pos` the cursor the reader tracks, `cs` its checksum. The  *)
(* file's length is taken once, so is_eof and has_left go by `pos` alone.  *)
(* A read through inner_file() moves `cur` and nothing else.               *)
(* Every operator below hands its intermediate results on as arguments:    *)
(* `x_then(.., r)` is what `x` does once it holds the result r of a read.  *)
(***************************************************************************)
SDSSFileTrackedReader_new == [cur |-> 0, pos |-> 0, cs |-> SCrc_new]

\* SDSSFileIO::read_to_buffer (read_exact): a short read fails at end of file
inner_read_to_buffer(f, rd, n) ==
    IF rd.cur + n <= Len(f)
    THEN [ok |-> TRUE, buf |-> SubSeq(f, rd.cur + 1, rd.cur + n), rd |-> [rd EXCEPT !.cur = @ + n]]
    ELSE [ok |-> FALSE, buf |-> <<>>, rd |-> [rd EXCEPT !.cur = Len(f)]]

\* a buffer of one byte as a byte, of eight bytes as a u64
AsByte(r) == [ok |-> r.ok, v |-> IF r.ok THEN r.buf[1] ELSE 0, rd |-> r.rd]
AsU64(r) == [ok |-> r.ok, v |-> IF r.ok THEN u64_from_le(r.buf) ELSE 0, rd |-> r.rd]

\* SDSSFileIO::read_byte
inner_read_byte(f, rd) == AsByte(inner_read_to_buffer(f, rd, 1))

remaining(f, rd) == Len(f) - rd.pos
is_eof(f, rd) == Len(f) = rd.pos
has_left(f, rd, v) == remaining(f, rd) >= v

\* read_into_buffer, once the file underneath has answered
read_into_buffer_then(r, n) ==
    IF r.ok
    THEN [ok |-> TRUE, buf |-> r.buf,
          rd |-> [r.rd EXCEPT !.pos = @ + n, !.cs = recompute_with_new_var_block(@, r.buf)]]
    ELSE r

read_into_buffer(f, rd, n) ==
    IF remaining(f, rd) >= n
    THEN read_into_buffer_then(inner_read_to_buffer(f, rd, n), n)
    ELSE [ok |-> FALSE, buf |-> <<>>, rd |-> rd]

read_byte(f, rd) == AsByte(read_into_buffer(f, rd, 1))

read_u64_le(f, rd) == AsU64(read_into_buffer(f, rd, SizeofU64))

\* __reset_checksum returns the checksum and starts a new one
reset_checksum(rd) == [rd EXCEPT !.cs = SCrc_new]
\* __cursor_ahead_by
cursor_ahead_by(rd, n) == [rd EXCEPT !.pos = @ + n]

(***************************************************************************)
(* The decoders of restore.rs. Each returns [ok, err, v, rd]: the Result,  *)
(* and the reader as the call left it.                                     *)
(***************************************************************************)
Failed(err, rd) == [ok |-> FALSE, err |-> err, v |-> <<>>, rd |-> rd]
Decoded(v, rd) == [ok |-> TRUE, err |-> "none", v |-> v, rd |-> rd]

\* the `?` on a read: the I/O error of a failed read, or the cell made of its value
QwCell(class, qw) ==
    IF ~qw.ok THEN Failed("IoError", qw.rd) ELSE Decoded([class |-> class, v |-> qw.v], qw.rd)

\* the bytes of a str or bin, once read: a str must be UTF-8
DualCell(class, data) ==
    IF ~data.ok THEN Failed("IoError", data.rd)
    ELSE IF class = "str" /\ ~from_utf8_ok(data.buf) THEN Failed("CorruptedEntry", data.rd)
    ELSE Decoded([class |-> class, v |-> data.buf], data.rd)

\* the length of a str or bin, once read: the buffer of that length is read next
DualOfLen(f, class, len) ==
    IF ~len.ok THEN Failed("IoError", len.rd)
    ELSE DualCell(class, read_into_buffer(f, len.rd, len.v))

decode_primary_key(f, rd, pk_type) ==
    IF pk_type \notin {TagUnique.UnsignedInt, TagUnique.SignedInt, TagUnique.Bin, TagUnique.Str}
    THEN Failed("CorruptedEntry", rd)
    ELSE IF pk_type = TagUnique.UnsignedInt THEN QwCell("uint", read_u64_le(f, rd))
    ELSE IF pk_type = TagUnique.SignedInt THEN QwCell("sint", read_u64_le(f, rd))
    ELSE IF pk_type = TagUnique.Str THEN DualOfLen(f, "str", read_u64_le(f, rd))
    ELSE DualOfLen(f, "bin", read_u64_le(f, rd))

\* the payload byte of a bool, once read
BoolCell(b) ==
    IF ~b.ok THEN Failed("IoError", b.rd)
    ELSE IF b.v > 1 THEN Failed("CorruptedEntry", b.rd)
    ELSE Decoded([class |-> "bool", v |-> b.v], b.rd)

RECURSIVE decode_cell(_, _)
RECURSIVE decode_cell_then(_, _)
RECURSIVE decode_list(_, _, _, _)
RECURSIVE decode_list_then(_, _, _, _)
RECURSIVE decode_list_of_len(_, _)

\* decode_cell, lines 546-554: the loop of the List arm, and the check after it
decode_list(f, rd, len, list) ==
    IF ~is_eof(f, rd) /\ Len(list) # len
    THEN decode_list_then(f, len, list, decode_cell(f, rd))
    ELSE IF len # Len(list)
         THEN Failed("CorruptedEntry", rd)
         ELSE Decoded([class |-> "list", v |-> list], rd)

decode_list_then(f, len, list, c) ==
    IF ~c.ok THEN c ELSE decode_list(f, c.rd, len, Append(list, c.v))

decode_list_of_len(f, len) ==
    IF ~len.ok THEN Failed("IoError", len.rd) ELSE decode_list(f, len.rd, len.v, <<>>)

\* decode_cell, once the type signature is read
decode_cell_then(f, sig) ==
    IF ~sig.ok THEN Failed("IoError", sig.rd)
    ELSE IF sig.v \notin 0..PersistTypeDscr.Dict THEN Failed("CorruptedEntry", sig.rd)
    ELSE IF sig.v = PersistTypeDscr.Null THEN Decoded(NullCell, sig.rd)
    ELSE IF sig.v = PersistTypeDscr.Bool THEN BoolCell(read_byte(f, sig.rd))
    ELSE IF sig.v = PersistTypeDscr.UnsignedInt THEN QwCell("uint", read_u64_le(f, sig.rd))
    ELSE IF sig.v = PersistTypeDscr.SignedInt THEN QwCell("sint", read_u64_le(f, sig.rd))
    ELSE IF sig.v = PersistTypeDscr.Float THEN QwCell("float", read_u64_le(f, sig.rd))
    ELSE IF sig.v = PersistTypeDscr.Str THEN DualOfLen(f, "str", read_u64_le(f, sig.rd))
    ELSE IF sig.v = PersistTypeDscr.Bin THEN DualOfLen(f, "bin", read_u64_le(f, sig.rd))
    ELSE IF sig.v = PersistTypeDscr.List THEN decode_list_of_len(f, read_u64_le(f, sig.rd))
    ELSE Failed("CorruptedEntry", sig.rd)

decode_cell(f, rd) == decode_cell_then(f, read_byte(f, rd))

BatchStartBlock_new(pk_tag, expected_commit, schema_version, column_cnt) ==
    [pk_tag |-> pk_tag, expected_commit |-> expected_commit,
     schema_version |-> schema_version, column_cnt |-> column_cnt]

\* read_start_batch_block, one read after the other
StartBlock4(pk_tag, expected_commit, schema_version, column_cnt) ==
    IF ~column_cnt.ok THEN Failed("IoError", column_cnt.rd)
    ELSE Decoded(BatchStartBlock_new(pk_tag.v, expected_commit.v, schema_version.v, column_cnt.v),
                 column_cnt.rd)
StartBlock3(f, pk_tag, expected_commit, schema_version) ==
    IF ~schema_version.ok THEN Failed("IoError", schema_version.rd)
    ELSE StartBlock4(pk_tag, expected_commit, schema_version, read_u64_le(f, schema_version.rd))
StartBlock2(f, pk_tag, expected_commit) ==
    IF ~expected_commit.ok THEN Failed("IoError", expected_commit.rd)
    ELSE StartBlock3(f, pk_tag, expected_commit, read_u64_le(f, expected_commit.rd))
StartBlock1(f, pk_tag) ==
    IF ~pk_tag.ok THEN Failed("IoError", pk_tag.rd)
    ELSE StartBlock2(f, pk_tag, read_u64_le(f, pk_tag.rd))

read_start_batch_block(f, rd) == StartBlock1(f, read_byte(f, rd))

\* read_batch, lines 376-383: the cells of one row
RECURSIVE read_row(_, _, _, _)
RECURSIVE read_row_then(_, _, _, _)
read_row(f, rd, this_col_cnt, cells) ==
    IF this_col_cnt # 0 /\ ~is_eof(f, rd)
    THEN read_row_then(f, this_col_cnt, cells, decode_cell(f, rd))
    ELSE IF this_col_cnt # 0
         THEN Failed("CorruptedEntry", rd)
         ELSE Decoded(cells, rd)

read_row_then(f, this_col_cnt, cells, c) ==
    IF ~c.ok THEN c ELSE read_row(f, c.rd, this_col_cnt - 1, Append(cells, c.v))

NormalBatch_new(events, schema_version) == [events |-> events, schema_version |-> schema_version]

\* what read_batch returns: kind is "Err" or one of the shapes of Batch
BatchErr(err, rd) == [kind |-> "Err", err |-> err, batch |-> NormalBatch_new(<<>>, 0), rd |-> rd]
BatchOf(kind, batch, rd) == [kind |-> kind, err |-> "none", batch |-> batch, rd |-> rd]

\* read_batch, lines 349-409: the loop over the events. lp = [block, processed,
\* this_batch] are the locals of the loop
RECURSIVE read_events(_, _, _)
RECURSIVE read_events_type(_, _, _)
RECURSIVE read_events_txnid(_, _, _, _)
RECURSIVE read_events_delete(_, _, _, _)
RECURSIVE read_events_pk(_, _, _, _, _)
RECURSIVE read_events_row(_, _, _, _, _, _)

Pushed(lp, ev) == [lp EXCEPT !.processed = @ + 1, !.this_batch = Append(@, ev)]

read_events(f, rd, lp) ==
    IF (lp.processed # lp.block.expected_commit) /\ ~is_eof(f, rd)
    THEN read_events_type(f, lp, read_byte(f, rd))
    ELSE BatchOf("Normal", NormalBatch_new(lp.this_batch, lp.block.schema_version), rd)

\* lines 351-361: the change type is read
read_events_type(f, lp, change_type) ==
    IF ~change_type.ok THEN BatchErr("IoError", change_type.rd)
    ELSE IF change_type.v = MARKER_END_OF_BATCH
    THEN BatchOf("FinishedEarly", NormalBatch_new(lp.this_batch, lp.block.schema_version),
                 change_type.rd)
    ELSE read_events_txnid(f, lp, change_type.v, read_u64_le(f, change_type.rd))

\* lines 362-405: the txn id is read
read_events_txnid(f, lp, change_type, txnid) ==
    IF ~txnid.ok THEN BatchErr("IoError", txnid.rd)
    ELSE IF change_type = 0
    THEN read_events_delete(f, lp, txnid.v, decode_primary_key(f, txnid.rd, lp.block.pk_tag))
    ELSE IF change_type \in {1, 2}
    THEN read_events_pk(f, lp, change_type, txnid.v,
                        decode_primary_key(f, txnid.rd, lp.block.pk_tag))
    ELSE BatchErr("CorruptedBatch", txnid.rd)

\* lines 364-372: a delete
read_events_delete(f, lp, txnid, pk) ==
    IF ~pk.ok THEN BatchErr(pk.err, pk.rd)
    ELSE read_events(f, pk.rd, Pushed(lp, DecodedBatchEvent_new(txnid, pk.v, "Delete", <<>>)))

\* lines 373-383: an insert or update, its primary key is read
read_events_pk(f, lp, change_type, txnid, pk) ==
    IF ~pk.ok THEN BatchErr(pk.err, pk.rd)
    ELSE read_events_row(f, lp, change_type, txnid, pk.v,
                         read_row(f, pk.rd, lp.block.column_cnt, <<>>))

\* lines 384-400: its row is read
read_events_row(f, lp, change_type, txnid, pk, r) ==
    IF ~r.ok THEN BatchErr(r.err, r.rd)
    ELSE read_events(f, r.rd,
             Pushed(lp, DecodedBatchEvent_new(txnid, pk,
                            IF change_type = 1 THEN "Insert" ELSE "Update", r.v)))

\* read_batch, lines 346-347: the start block is read
read_batch_block(f, batch_start_block) ==
    IF ~batch_start_block.ok
    THEN BatchErr(batch_start_block.err, batch_start_block.rd)
    ELSE read_events(f, batch_start_block.rd,
             [block |-> batch_start_block.v, processed |-> 0, this_batch |-> <<>>])

\* read_batch, lines 329-345: the batch type is read
read_batch_type(f, batch_type) ==
    IF ~batch_type.ok THEN BatchErr("IoError", batch_type.rd)
    ELSE IF batch_type.v = MARKER_RECOVERY_EVENT
    THEN BatchOf("RecoveredFromerror", NormalBatch_new(<<>>, 0), batch_type.rd)
    ELSE IF batch_type.v = MARKER_BATCH_CLOSED
    THEN BatchOf("BatchClosed", NormalBatch_new(<<>>, 0), batch_type.rd)
    ELSE IF batch_type.v # MARKER_ACTUAL_BATCH_EVENT
    THEN BatchErr("CorruptedBatch", batch_type.rd)
    ELSE read_batch_block(f, read_start_batch_block(f, batch_type.rd))

read_batch(f, rd) == read_batch_type(f, read_byte(f, rd))

\* as read_batch_summary_checksum, but comparing nothing
read_batch_summary_checksum_NoCompare(actual_commit, actual_checksum, hardcoded_checksum) ==
    IF ~hardcoded_checksum.ok THEN Failed("IoError", hardcoded_checksum.rd)
    ELSE Decoded(actual_commit, cursor_ahead_by(hardcoded_checksum.rd, SizeofU64))

\* read_batch_summary, lines 313-324: the checksum written in the file is read
\* through inner_file(), and compared
read_batch_summary_checksum(actual_commit, actual_checksum, hardcoded_checksum) ==
    IF ~hardcoded_checksum.ok THEN Failed("IoError", hardcoded_checksum.rd)
    ELSE IF checksum_to_le(actual_checksum) = hardcoded_checksum.buf
    THEN Decoded(actual_commit, cursor_ahead_by(hardcoded_checksum.rd, SizeofU64))
    ELSE Failed("CorruptedBatch", cursor_ahead_by(hardcoded_checksum.rd, SizeofU64))

\* read_batch_summary, lines 309-312: actual_commit is read, the checksum taken
read_batch_summary_commit(f, actual_commit) ==
    IF ~actual_commit.ok THEN Failed("IoError", actual_commit.rd)
    ELSE read_batch_summary_checksum(actual_commit.v, actual_commit.rd.cs,
             inner_read_to_buffer(f, reset_checksum(actual_commit.rd), SizeofU64))

\* read_batch_summary, lines 302-308: the termination signature is read
read_batch_summary_marker(f, b) ==
    IF ~b.ok THEN Failed("IoError", b.rd)
    ELSE IF b.v # MARKER_END_OF_BATCH THEN Failed("CorruptedBatch", b.rd)
    ELSE read_batch_summary_commit(f, read_u64_le(f, b.rd))

\* as read_batch_summary, but reading a termination signature in every case
read_batch_summary_AlwaysMarker(f, rd, finished_early) ==
    read_batch_summary_marker(f, read_byte(f, rd))

read_batch_summary(f, rd, finished_early) ==
    IF ~finished_early
    THEN read_batch_summary_marker(f, read_byte(f, rd))
    ELSE read_batch_summary_commit(f, read_u64_le(f, rd))

\* attempt_recover_data_batch: [ok, rd]
RECURSIVE attempt_recover_data_batch_from(_, _, _)
RECURSIVE attempt_recover_data_batch_then(_, _, _)
attempt_recover_data_batch_from(f, rd, max_threshold) ==
    IF max_threshold # 0 /\ has_left(f, rd, 1)
    THEN attempt_recover_data_batch_then(f, max_threshold, inner_read_byte(f, rd))
    ELSE [ok |-> FALSE, rd |-> rd]

attempt_recover_data_batch_then(f, max_threshold, b) ==
    IF b.ok /\ b.v = MARKER_RECOVERY_EVENT
    THEN [ok |-> TRUE, rd |-> b.rd]
    ELSE attempt_recover_data_batch_from(f, b.rd, max_threshold - 1)

\* as attempt_recover_data_batch, but giving up one byte earlier
attempt_recover_data_batch_Short(f, rd) ==
    attempt_recover_data_batch_from(f, rd, RECOVERY_THRESHOLD - 1)

attempt_recover_data_batch(f, rd) == attempt_recover_data_batch_from(f, rd, RECOVERY_THRESHOLD)

\* as handle_reopen_is_actual_close_then, but any byte after the close marker
\* counts as a reopen
handle_reopen_is_actual_close_then_AnyByte(b) ==
    IF ~b.ok THEN Failed("IoError", b.rd) ELSE Decoded(FALSE, b.rd)

\* handle_reopen_is_actual_close, once the byte after the close marker is read
handle_reopen_is_actual_close_then(b) ==
    IF ~b.ok THEN Failed("IoError", b.rd)
    ELSE IF b.v = MARKER_BATCH_REOPEN
    THEN Decoded(FALSE, b.rd)
    ELSE Failed("CorruptedBatchFile", b.rd)

handle_reopen_is_actual_close(f, rd) ==
    IF is_eof(f, rd)
    THEN Decoded(TRUE, rd)
    ELSE handle_reopen_is_actual_close_then(read_byte(f, rd))

(***************************************************************************)
(* The writer's side of the layout: the bytes of a cell, of a primary key, *)
(* of an event and of a batch. The checksum of a batch is the checksum of  *)
(* its own bytes, from the 0xA1 marker to actual_commit.                   *)
(***************************************************************************)
encode_cell(c) ==
    IF c.class = "null" THEN <<PersistTypeDscr.Null>>
    ELSE IF c.class = "uint" THEN <<PersistTypeDscr.UnsignedInt>> \o u64_to_le(c.v)
    ELSE <<PersistTypeDscr.Str>> \o u64_to_le(Len(c.v)) \o c.v

encode_primary_key(pk) == u64_to_le(pk.v)

RECURSIVE encode_cells(_)
encode_cells(cells) ==
    IF cells = <<>> THEN <<>> ELSE encode_cell(Head(cells)) \o encode_cells(Tail(cells))

encode_event(ev) ==
    IF ev.kind = "Delete"
    THEN <<0>> \o u64_to_le(ev.txn_id) \o encode_primary_key(ev.pk)
    ELSE <<IF ev.kind = "Insert" THEN 1 ELSE 2>> \o u64_to_le(ev.txn_id)
            \o encode_primary_key(ev.pk) \o encode_cells(ev.cells)

RECURSIVE encode_events(_)
encode_events(events) ==
    IF events = <<>> THEN <<>> ELSE encode_event(Head(events)) \o encode_events(Tail(events))

\* a batch up to its last event, and up to actual_commit: the bytes its checksum
\* covers
encode_batch_head(expected_commit, schema_version, column_cnt, payload) ==
    <<MARKER_ACTUAL_BATCH_EVENT, TagUnique.UnsignedInt>>
        \o u64_to_le(expected_commit) \o u64_to_le(schema_version)
        \o u64_to_le(column_cnt) \o payload

encode_batch_with(expected_commit, schema_version, column_cnt, payload, actual_commit) ==
    encode_batch_head(expected_commit, schema_version, column_cnt, payload)
        \o <<MARKER_END_OF_BATCH>> \o u64_to_le(actual_commit)

encode_batch_body(batch, column_cnt) ==
    encode_batch_with(Len(batch.events), batch.schema_version, column_cnt,
                      encode_events(batch.events), Len(batch.events))

WithChecksum(body) == body \o checksum_to_le(recompute_with_new_var_block(SCrc_new, body))

encode_batch(batch, column_cnt) == WithChecksum(encode_batch_body(batch, column_cnt))

\* the two batches of the journals: one insert each, of rows 1 and 2
StrBytes(n) == <<96 + n>>
Batch1 == NormalBatch_new(<<DecodedBatchEvent_new(1, UIntCell(1), "Insert", <<[class |-> "str", v |-> StrBytes(1)]>>)>>, 0)
Batch2 == NormalBatch_new(<<DecodedBatchEvent_new(2, UIntCell(2), "Insert", <<[class |-> "str", v |-> StrBytes(2)]>>)>>, 0)

\* one byte of the payload changed after the checksum was written: the last byte
\* of the event's last cell, which stands SizeofU64 + SizeofU64 + 1 bytes before
\* the end of the batch
FlipPayloadByte(bytes) ==
    [bytes EXCEPT ![Len(bytes) - 2 * SizeofU64 - 1] = IF @ % 2 = 0 THEN @ + 1 ELSE @ - 1]

\* the batch of no events
Batch0 == NormalBatch_new(<<>>, 0)

\* an Insert event of txn_id BadTxn whose only cell is given by its bytes
BadTxn == 3
BadRow(cell) == <<1>> \o u64_to_le(BadTxn) \o encode_primary_key(UIntCell(BadTxn)) \o cell

\* cells decode_cell must not accept: a dscr that is none, the dict dscr, a bool
\* of 2, a str of one byte that is no UTF-8, a list of two with one element
BadCellSegments == {"CDscr", "CDict", "CBool", "CUtf8", "CList"}
BadCellBytes ==
    [s \in BadCellSegments |->
        CASE s = "CDscr" -> <<PersistTypeDscr.Dict + 1>>
          [] s = "CDict" -> <<PersistTypeDscr.Dict>>
          [] s = "CBool" -> <<PersistTypeDscr.Bool, 2>>
          [] s = "CUtf8" -> <<PersistTypeDscr.Str>> \o u64_to_le(1) \o <<200>>
          [] s = "CList" -> <<PersistTypeDscr.List>> \o u64_to_le(2) \o <<PersistTypeDscr.Null>>]

\* the pieces the journals are made of: the two batches, batch 1 with a payload
\* byte flipped, the markers, and a byte that is no marker
Segments == {"B1", "B2", "BX", "A2", "A3", "A4", "G"}
\* and the batches at the edges: the batch of no events, the batch ended early
\* before its first event, batch 1 with an actual_commit of 2, and the batches of
\* one bad cell (the one with the list ends after the list's element)
EdgeSegments == {"B0", "BE", "BM"} \cup BadCellSegments
SegmentBytes ==
    [s \in Segments \cup EdgeSegments |->
        CASE s = "B0" -> encode_batch(Batch0, NonPkCount)
          [] s = "BE" -> WithChecksum(encode_batch_with(1, 0, NonPkCount, <<>>, 0))
          [] s = "BM" -> WithChecksum(encode_batch_with(1, 0, NonPkCount,
                                                        encode_events(Batch1.events), 2))
          [] s = "CList" -> encode_batch_head(1, 0, NonPkCount, BadRow(BadCellBytes[s]))
          [] s \in BadCellSegments \ {"CList"} ->
                WithChecksum(encode_batch_with(1, 0, NonPkCount, BadRow(BadCellBytes[s]), 1))
          [] s = "B1" -> encode_batch(Batch1, NonPkCount)
          [] s = "B2" -> encode_batch(Batch2, NonPkCount)
          [] s = "BX" -> FlipPayloadByte(encode_batch(Batch1, NonPkCount))
          [] s = "A2" -> <<MARKER_RECOVERY_EVENT>>
          [] s = "A3" -> <<MARKER_BATCH_CLOSED>>
          [] s = "A4" -> <<MARKER_BATCH_REOPEN>>
          [] s = "G" -> <<7>>]

RECURSIVE FileOf(_)
FileOf(segs) == IF segs = <<>> THEN <<>> ELSE SegmentBytes[Head(segs)] \o FileOf(Tail(segs))

\* scenario S4: a recovery marker, garbage and a recovery marker between two batches
S4Journal == <<"B1", "A2", "G", "A2", "B2", "A3">>
\* scenario S5: a close marker and a reopen marker between two batches
S5Journal == <<"B1", "A3", "A4", "B2", "A3">>

\* the journals: up to MaxSegs pieces, then the close marker or nothing; S4; and
\* up to MaxEdge pieces out of the batches at the edges, batch 2 and the recovery
\* marker, then the close marker or nothing
Journals ==
    {body \o tail : body \in UNION {[1..n -> Segments] : n \in 0..MaxSegs},
                    tail \in {<<>>, <<"A3">>}}
        \cup {S4Journal}
        \cup {body \o tail :
                body \in UNION {[1..n -> EdgeSegments \cup {"B2", "A2"}] : n \in 0..MaxEdge},
                tail \in {<<>>, <<"A3">>}}

(***************************************************************************)
(* SpecRestore: read_all_batches_and_for_each over one journal, one call   *)
(* of read_batch, read_batch_summary, handle_reopen_is_actual_close or     *)
(* attempt_recover_data_batch per step. f(batch) appends to `applied`.     *)
(***************************************************************************)
InitRestore ==
    /\ index = {}
    /\ ret = None
    /\ lastIns = NoKeys
    /\ deleted = [k \in Keys |-> "no"]
    /\ data_delta_version = 0
    /\ queue = <<>>
    /\ thr = [t \in AllThreads |-> Idle]
    /\ rstatus = "idle"
    /\ pending_delete = <<>>
    /\ bpos = 0
    /\ used = {}
    /\ ref = NoKeys
    /\ PrepIdle
    /\ AuthIdle
    /\ journal \in Journals
    /\ reader = SDSSFileTrackedReader_new
    /\ closed = FALSE
    /\ rpc = "loop"
    /\ last_batch = [kind |-> "none", err |-> "none", batch |-> NormalBatch_new(<<>>, 0)]
    /\ applied = <<>>
    /\ rerr = "none"
    /\ scans = 0

RestoreFrame == UNCHANGED <<index, idxHist, dmlVars, rstVars, prepVars, authVars, journal>>

\* lines 149-166: the loop condition, read_batch and the match on its result
ReadBatch ==
    /\ rpc = "loop"
    /\ ~is_eof(FileOf(journal), reader) /\ ~closed
    /\ LET b == read_batch(FileOf(journal), reader) IN
         /\ reader' = b.rd
         /\ last_batch' = [kind |-> b.kind, err |-> b.err, batch |-> b.batch]
         /\ rpc' = CASE b.kind = "Err" -> "recover"
                     [] b.kind = "RecoveredFromerror" -> "loop"
                     [] b.kind = "BatchClosed" -> "reopen"
                     [] OTHER -> "summary"
    /\ UNCHANGED <<closed, applied, rerr, scans>>
    /\ RestoreFrame

\* lines 163-165: closed = self.handle_reopen_is_actual_close()?
HandleReopen ==
    /\ rpc = "reopen"
    /\ LET r == handle_reopen_is_actual_close(FileOf(journal), reader) IN
         /\ reader' = r.rd
         /\ IF r.ok
            THEN closed' = r.v /\ rpc' = "loop" /\ rerr' = rerr
            ELSE closed' = closed /\ rpc' = "done" /\ rerr' = r.err
    /\ UNCHANGED <<last_batch, applied, scans>>
    /\ RestoreFrame

\* lines 169-181: read_batch_summary, the check of the commit count, f(batch)
ReadBatchSummary ==
    /\ rpc = "summary"
    /\ LET r == read_batch_summary(FileOf(journal), reader, last_batch.kind = "FinishedEarly") IN
         /\ reader' = r.rd
         /\ IF r.ok /\ Len(last_batch.batch.events) = r.v
            THEN applied' = Append(applied, last_batch.batch) /\ rpc' = "loop"
            ELSE applied' = applied /\ rpc' = "recover"
    /\ UNCHANGED <<closed, last_batch, rerr, scans>>
    /\ RestoreFrame

\* lines 152, 170 and 176: self.attempt_recover_data_batch()?
AttemptRecover ==
    /\ rpc = "recover"
    /\ LET r == attempt_recover_data_batch(FileOf(journal), reader) IN
         /\ reader' = r.rd
         /\ IF r.ok
            THEN rpc' = "loop" /\ rerr' = rerr
            ELSE rpc' = "done" /\ rerr' = "CorruptedBatch"
    /\ scans' = scans + 1
    /\ UNCHANGED <<closed, last_batch, applied>>
    /\ RestoreFrame

LoopExit_Spin ==
    /\ rpc = "loop"
    /\ is_eof(FileOf(journal), reader) \/ closed
    /\ UNCHANGED <<reader, closed, rpc, rerr, last_batch, applied, scans>>
    /\ RestoreFrame

\* lines 149 and 183-190: the loop ends
LoopExit ==
    /\ rpc = "loop"
    /\ is_eof(FileOf(journal), reader) \/ closed
    /\ rpc' = "done"
    /\ rerr' = IF closed /\ is_eof(FileOf(journal), reader) THEN "Ok" ELSE "CorruptedBatchFile"
    /\ UNCHANGED <<reader, closed, last_batch, applied, scans>>
    /\ RestoreFrame

NextRestore ==
    \/ ReadBatch
    \/ HandleReopen
    \/ ReadBatchSummary
    \/ AttemptRecover
    \/ LoopExit

SpecRestore == InitRestore /\ [][NextRestore]_vars

\* the bytes of the journal under restore
File == FileOf(journal)

\* a journal as the writer leaves it: batches, and close markers each of which is
\* the last byte or has the reopen marker after it
WrittenJournal(j) ==
    \A i \in 1..Len(j) :
        /\ j[i] \in {"B1", "B2", "A3", "A4"}
        /\ (j[i] = "A4" => i > 1 /\ j[i - 1] = "A3")
        /\ (j[i] = "A3" /\ i < Len(j) => j[i + 1] = "A4")

EndsClosed(j) == j # <<>> /\ j[Len(j)] = "A3"

\* C17: restore returns Ok only after reading a 0xA3 close marker that is the
\* last byte of the file; and every journal the writer left without a final
\* close marker (no byte at all, batches only, or 0xA3 0xA4 at the end) makes
\* restore fail with CorruptedBatchFile.
C17_OkOnlyAfterFinalClose ==
    rpc = "done" =>
        /\ (rerr = "Ok" =>
                /\ closed /\ last_batch.kind = "BatchClosed"
                /\ Len(File) > 0 /\ File[Len(File)] = MARKER_BATCH_CLOSED
                /\ reader.pos = Len(File) /\ reader.cur = Len(File))
        /\ (WrittenJournal(journal) /\ ~EndsClosed(journal) => rerr = "CorruptedBatchFile")

\* the first half of C17 alone: Ok only after a final close marker
OkOnlyAfterFinalClose ==
    rpc = "done" /\ rerr = "Ok" =>
        /\ closed /\ last_batch.kind = "BatchClosed"
        /\ Len(File) > 0 /\ File[Len(File)] = MARKER_BATCH_CLOSED
        /\ reader.pos = Len(File) /\ reader.cur = Len(File)

\* C18: the journal [batch1][0xA3][0xA4][batch2][0xA3] restores with Ok and
\* applies batch1 and batch2.
C18_ReopenRestoresBoth ==
    rpc = "done" /\ journal = S5Journal => rerr = "Ok" /\ applied = <<Batch1, Batch2>>

\* C19: when the byte after a 0xA3 close marker is there and is not 0xA4, the
\* step of handle_reopen_is_actual_close ends restore with CorruptedBatchFile,
\* with no recovery attempt and no batch applied, whatever follows that byte.
C19_StrictAfterClose ==
    [][(rpc = "reopen" /\ reader.cur < Len(File)
            /\ File[reader.cur + 1] # MARKER_BATCH_REOPEN)
        => (rpc' = "done" /\ rerr' = "CorruptedBatchFile"
                /\ scans' = scans /\ applied' = applied)]_vars

\* a close marker, a byte that is no marker, then a recovery marker: restore has
\* failed with CorruptedBatchFile and never scanned for the recovery marker
C19_Witness ==
    /\ rpc = "done" /\ rerr = "CorruptedBatchFile"
    /\ journal = <<"B1", "A3", "G", "A2">>
    /\ last_batch.kind = "BatchClosed" /\ scans = 0 /\ applied = <<Batch1>>

\* C20: the journal [batch1][0xA2][garbage][0xA2][batch2][0xA3] restores with Ok
\* and applies batch1 and batch2: the garbage after the first recovery marker is
\* skipped and nothing else.
C20_RecoveryMarkerSkipsOneBatch ==
    rpc = "done" /\ journal = S4Journal => rerr = "Ok" /\ applied = <<Batch1, Batch2>>

\* scenario S6: batch1 with a payload byte flipped, with and without a recovery
\* marker before batch2
S6Journal == <<"BX", "A2", "B2", "A3">>
S6JournalNoMarker == <<"BX", "B2", "A3">>

\* C21: with one payload byte of batch1 flipped, restore of [batch1'][batch2][0xA3]
\* fails, and restore of [batch1'][0xA2][batch2][0xA3] skips batch1, applies
\* batch2 and returns Ok.
C21_FlippedByteRecovers ==
    rpc = "done" =>
        /\ (journal = S6JournalNoMarker => rerr # "Ok")
        /\ (journal = S6Journal => rerr = "Ok" /\ applied = <<Batch2>>)

\* the distances, from the file's cursor, of the recovery markers attempt_recover
\* may look at
MarkersInReach ==
    {i \in 1..RECOVERY_THRESHOLD :
        reader.cur + i <= Len(File) /\ File[reader.cur + i] = MARKER_RECOVERY_EVENT}

\* C22: attempt_recover looks at the RECOVERY_THRESHOLD bytes after the point of
\* failure and no further: with a 0xA2 among them the loop goes on and the next
\* read_batch starts right after the first such byte; with none restore fails.
C22_ScanBounded ==
    [][rpc = "recover" =>
        IF MarkersInReach # {}
        THEN /\ rpc' = "loop" /\ rerr' = rerr /\ applied' = applied
             /\ ~closed' /\ ~is_eof(File, reader')
             /\ reader'.cur - reader.cur \in MarkersInReach
             /\ \A i \in MarkersInReach : reader'.cur - reader.cur <= i
        ELSE rpc' = "done" /\ rerr' \notin {"Ok", "none"} /\ applied' = applied]_vars

\* the recovery marker is the last byte attempt_recover may look at, and is found
C22_Witness ==
    /\ rpc = "loop" /\ scans = 1 /\ applied = <<>>
    /\ reader.pos = 1 /\ reader.cur = RECOVERY_THRESHOLD + 1
    /\ File[reader.cur] = MARKER_RECOVERY_EVENT

\* C23: when the recovery attempt finds no recovery marker, restore ends with
\* CorruptedBatchFile.
C23_FailedRecoveryIsFileError ==
    [][rpc = "recover" /\ rpc' = "done" => rerr' = "CorruptedBatchFile"]_vars

\* C24: once restore has returned Ok, data_delta_version is greater than the
\* restored_txn of every row of the index.
C24_CounterAboveRestored ==
    rstatus = "ok" => \A e \in index : e.val.restored_txn < data_delta_version

\* the batch a well-formed piece holds
GoodSegments == {"B1", "B2", "B0", "BE"}
GoodBatch == [s \in GoodSegments |-> CASE s = "B1" -> Batch1 [] s = "B2" -> Batch2 [] OTHER -> Batch0]

\* C25: a journal of batches of no events (expected_commit = 0, or ended early
\* before the first event) and of batch 2, closed with 0xA3, restores with Ok and
\* without a recovery attempt; every batch is handed on, those of no events as
\* batches of no events.
C25_EmptyBatchesAccepted ==
    (/\ rpc = "done"
     /\ journal # <<>> /\ journal[Len(journal)] = "A3"
     /\ \A i \in 1..(Len(journal) - 1) : journal[i] \in {"B0", "BE", "B2"}
     /\ \E i \in 1..(Len(journal) - 1) : journal[i] \in {"B0", "BE"})
    => /\ rerr = "Ok" /\ scans = 0
       /\ applied = [i \in 1..(Len(journal) - 1) |-> GoodBatch[journal[i]]]

\* a batch ended early before its first event, then batch 2
C25_Witness ==
    /\ rpc = "done" /\ rerr = "Ok" /\ scans = 0
    /\ journal = <<"BE", "B2", "A3">>
    /\ applied = <<Batch0, Batch2>>

\* where the i-th piece of the journal starts and ends in the file
SegStart(i) == Len(FileOf(SubSeq(journal, 1, i - 1)))
SegEnd(i) == Len(FileOf(SubSeq(journal, 1, i)))

\* read_batch is about to read a batch of one bad cell from its first byte
AtBadCell ==
    /\ rpc = "loop" /\ ~closed /\ ~is_eof(File, reader)
    /\ \E i \in DOMAIN journal : journal[i] \in BadCellSegments /\ reader.cur = SegStart(i)

\* C26: read_batch over a batch with a cell of a dscr out of range, of the dict
\* dscr, of a bool above 1, of a str that is no UTF-8 or of a list shorter than
\* declared fails with CorruptedEntry and yields no batch; and no batch handed
\* on ever holds the event of a bad cell.
C26_BadCellRejected ==
    [][/\ AtBadCell =>
            /\ last_batch'.kind = "Err" /\ last_batch'.err = "CorruptedEntry"
            /\ last_batch'.batch.events = <<>>
            /\ rpc' = "recover" /\ applied' = applied
       /\ \A i \in DOMAIN applied' :
            \A j \in DOMAIN applied'[i].events : applied'[i].events[j].txn_id # BadTxn]_vars

\* the trailer of the batch last decoded, as it stands in the file after the
\* file's cursor: the end marker unless the batch ended early, actual_commit,
\* the stored checksum
MarkerLen == IF last_batch.kind = "FinishedEarly" THEN 0 ELSE Len(<<MARKER_END_OF_BATCH>>)
TrailerThere ==
    /\ reader.cur + MarkerLen + 2 * SizeofU64 <= Len(File)
    /\ MarkerLen # 0 => File[reader.cur + 1] = MARKER_END_OF_BATCH
TrailerCommit ==
    u64_from_le(SubSeq(File, reader.cur + MarkerLen + 1, reader.cur + MarkerLen + SizeofU64))
TrailerChecksum ==
    SubSeq(File, reader.cur + MarkerLen + SizeofU64 + 1, reader.cur + MarkerLen + 2 * SizeofU64)
\* the checksum of the bytes read since the reader's checksum was reset, up to
\* and including actual_commit
ReadChecksum ==
    checksum_to_le(recompute_with_new_var_block(reader.cs,
        SubSeq(File, reader.cur + 1, reader.cur + MarkerLen + SizeofU64)))
SummaryAccepts ==
    /\ TrailerThere
    /\ ReadChecksum = TrailerChecksum
    /\ Len(last_batch.batch.events) = TrailerCommit

\* C29: a batch is handed on only by the step that reads its summary, and only
\* when the stored checksum equals the checksum of the bytes read and the number
\* of its events equals actual_commit; otherwise nothing is handed on and the
\* recovery attempt comes next.
C29_AppliedOnlyAfterSummary ==
    [][/\ applied' # applied =>
            /\ rpc = "summary" /\ SummaryAccepts
            /\ applied' = Append(applied, last_batch.batch)
       /\ rpc = "summary" /\ ~SummaryAccepts => applied' = applied /\ rpc' = "recover"]_vars

\* batch 1 with the right checksum and an actual_commit of 2: not handed on
C29_Witness ==
    /\ journal # <<>> /\ journal[1] = "BM"
    /\ rpc = "recover" /\ scans = 0 /\ applied = <<>>
    /\ last_batch.kind = "Normal" /\ last_batch.batch = Batch1
    /\ reader.cur = SegEnd(1) /\ reader.cs = SCrc_new

\* read_batch has decoded a well-formed batch from its 0xA1 marker to its last
\* event
AtGoodSummary ==
    /\ rpc = "summary"
    /\ \E i \in DOMAIN journal :
            /\ journal[i] \in GoodSegments
            /\ last_batch.batch = GoodBatch[journal[i]]
            /\ reader.cur + MarkerLen + 2 * SizeofU64 = SegEnd(i)

\* C30: the checksum compared with the stored one covers the bytes of the batch
\* and no byte read before it: a well-formed batch is handed on whatever stands
\* before it in the file.
C30_ChecksumCoversBatchOnly ==
    [][AtGoodSummary => applied' = Append(applied, last_batch.batch) /\ rpc' = "loop"]_vars

(***************************************************************************)
(* SysAuth. A hash is made with a salt of the hasher's choice and keeps it; *)
(* verify hashes the password with the salt of the hash and compares.       *)
(***************************************************************************)
Usernames == {"root", "alice", "bob"}
Passwords == 1..MaxPw
Salts == 1..MaxSalt

\* the digest of a password under a salt
Digest(password, salt) == password * (MaxSalt + 1) + salt

\* rcrypt::hash and rcrypt::verify
rcrypt_hash(password, salt) == [salt |-> salt, digest |-> Digest(password, salt)]
rcrypt_verify(password, hash) == hash.digest = Digest(password, hash.salt)

SysAuthUser_new(key) == [key |-> key]

\* as create_new_user, but putting the new password in the place of the old
create_new_user_Overwrite(us, username, password, salt) ==
    [users |-> [u \in DOMAIN us \cup {username} |->
                    IF u = username THEN SysAuthUser_new(rcrypt_hash(password, salt)) ELSE us[u]],
     ret |-> IF username \in DOMAIN us THEN "SysAuthError" ELSE "Ok"]

\* SysAuth::create_new_user: [users, ret]
create_new_user(us, username, password, salt) ==
    IF username \notin DOMAIN us
    THEN [users |-> [u \in DOMAIN us \cup {username} |->
                        IF u = username THEN SysAuthUser_new(rcrypt_hash(password, salt))
                        ELSE us[u]],
          ret |-> "Ok"]
    ELSE [users |-> us, ret |-> "SysAuthError"]

\* as verify_user, but taking root's key from the users map once it is there
verify_user_RootFromUsers(rk, us, username, password) ==
    IF username \in DOMAIN us
    THEN IF rcrypt_verify(password, us[username].key) THEN "Ok" ELSE "SysAuthError"
    ELSE IF username = "root" /\ rcrypt_verify(password, rk) THEN "Ok" ELSE "SysAuthError"

\* as verify_user, but asking a known user for no password
verify_user_NoPassword(rk, us, username, password) ==
    IF username = "root"
    THEN IF rcrypt_verify(password, rk) THEN "Ok" ELSE "SysAuthError"
    ELSE IF username \in DOMAIN us THEN "Ok" ELSE "SysAuthError"

\* SysAuth::verify_user
verify_user(rk, us, username, password) ==
    IF username = "root"
    THEN IF rcrypt_verify(password, rk) THEN "Ok" ELSE "SysAuthError"
    ELSE IF username \in DOMAIN us /\ rcrypt_verify(password, us[username].key)
         THEN "Ok"
         ELSE "SysAuthError"

\* SysAuth::new with a root key and no users
InitAuth ==
    /\ index = {}
    /\ ret = None
    /\ lastIns = NoKeys
    /\ deleted = [k \in Keys |-> "no"]
    /\ data_delta_version = 0
    /\ queue = <<>>
    /\ thr = [t \in AllThreads |-> Idle]
    /\ rstatus = "idle"
    /\ pending_delete = <<>>
    /\ bpos = 0
    /\ used = {}
    /\ ref = NoKeys
    /\ PrepIdle
    /\ DecIdle
    /\ \E p \in Passwords, salt \in Salts : root_key = rcrypt_hash(p, salt)
    /\ users = <<>>
    /\ aret = None
    /\ created = <<>>

AuthFrame == UNCHANGED <<index, idxHist, dmlVars, rstVars, prepVars, decVars, root_key>>

CreateNewUser(username, password, salt) ==
    /\ users' = create_new_user(users, username, password, salt).users
    /\ aret' = [op |-> "create", username |-> username, password |-> password,
                ret |-> create_new_user(users, username, password, salt).ret]
    /\ created' = IF create_new_user(users, username, password, salt).ret = "Ok"
                  THEN [u \in DOMAIN created \cup {username} |->
                            IF u = username THEN password ELSE created[u]]
                  ELSE created
    /\ AuthFrame

VerifyUser(username, password) ==
    /\ aret' = [op |-> "verify", username |-> username, password |-> password,
                ret |-> verify_user(root_key, users, username, password)]
    /\ UNCHANGED <<users, created>>
    /\ AuthFrame

NextAuth ==
    \/ \E u \in Usernames, p \in Passwords, salt \in Salts : CreateNewUser(u, p, salt)
    \/ \E u \in Usernames, p \in Passwords : VerifyUser(u, p)

SpecAuth == InitAuth /\ [][NextAuth]_vars

\* C27: create_new_user for a username that is in `users` returns the auth error
\* and changes no stored credentials; for one that is not it returns Ok and adds
\* that user, with a key the given password verifies against, and nothing else.
C27_CreateNewUser ==
    [][aret'.op = "create" =>
        IF aret'.username \in DOMAIN users
        THEN aret'.ret = "SysAuthError" /\ users' = users /\ root_key' = root_key
        ELSE /\ aret'.ret = "Ok"
             /\ DOMAIN users' = DOMAIN users \cup {aret'.username}
             /\ \A u \in DOMAIN users : users'[u] = users[u]
             /\ rcrypt_verify(aret'.password, users'[aret'.username].key)
             /\ root_key' = root_key]_vars

\* a user was created again, with another password
C27_Witness ==
    /\ aret # None /\ aret.op = "create" /\ aret.ret = "SysAuthError"
    /\ aret.username # "root" /\ aret.username \in DOMAIN created
    /\ created[aret.username] # aret.password
    /\ rcrypt_verify(created[aret.username], users[aret.username].key)

\* C28: verify_user of a username other than root returns Ok exactly when the
\* user was created and the password is the one of the call that created it.
C28_VerifyUser ==
    (aret # None /\ aret.op = "verify" /\ aret.username # "root") =>
        (aret.ret = "Ok" <=>
            (aret.username \in DOMAIN created /\ created[aret.username] = aret.password))

\* a created user was verified with its password
C28_Witness ==
    /\ aret # None /\ aret.op = "verify" /\ aret.ret = "Ok"
    /\ aret.username = "alice"
    /\ DOMAIN created = {"alice", "bob"}
    /\ created["alice"] # created["bob"]

\* C31: a turn of the event loop for an Insert or Update event with txn_id t leaves
\* the row of its key as it was, cells and restored_txn, when that row has
\* restored_txn > t; in every other case the key then holds the row built from the
\* event; and the restored_txn of a key that had a row does not decrease.
C31_InsertUpdateByTxn ==
    [][\A t \in 1..MaxTxn : \A ev \in EventsWith(t) :
        ApplyInsertUpdate(ev) =>
            /\ IF mt_get(index, ev.pk) # None /\ mt_get(index, ev.pk)[1].restored_txn > t
               THEN mt_get(index', ev.pk) = mt_get(index, ev.pk)
               ELSE /\ mt_get(index', ev.pk) # None
                    /\ mt_get(index', ev.pk)[1].restored_txn = t
                    /\ mt_get(index', ev.pk)[1].pk = ev.pk
                    /\ \A n \in DOMAIN mt_get(index', ev.pk)[1].data :
                           mt_get(index', ev.pk)[1].data[n] \in {ev.cells[i] : i \in DOMAIN ev.cells}
            /\ mt_get(index, ev.pk) # None =>
                   mt_get(index', ev.pk)[1].restored_txn >= mt_get(index, ev.pk)[1].restored_txn
            /\ \A k \in Keys : UIntCell(k) # ev.pk =>
                   mt_get(index', UIntCell(k)) = mt_get(index, UIntCell(k))]_vars

\* both events of the first batch were Insert or Update events for one key, in
\* either order: the row is the one of the larger txn_id
C31_Witness ==
    /\ rstatus = "events" /\ bpos = 0
    /\ used = {1, 2}
    /\ pending_delete = <<>>
    /\ ref[1] # None /\ ref[2] = None
    /\ mt_get(index, UIntCell(1)) # None
    /\ mt_get(index, UIntCell(1))[1].restored_txn = 2

\* C32: a turn of the event loop for a Delete event changes no row and keeps, per
\* key, the largest delete txn_id of the batch; a turn of the pending pass for a
\* key that holds a row removes the row if and only if its restored_txn is at most
\* that txn_id, and leaves a surviving row and every other key as they were.
C32_DeletesAfterScan ==
    [][/\ \A t \in 1..MaxTxn : \A ev \in EventsWith(t) :
            ApplyDelete(ev) =>
                /\ index' = index
                /\ DOMAIN pending_delete' = DOMAIN pending_delete \cup {ev.pk}
                /\ pending_delete'[ev.pk] =
                       IF ev.pk \in DOMAIN pending_delete /\ pending_delete[ev.pk] > t
                       THEN pending_delete[ev.pk] ELSE t
                /\ \A pk \in DOMAIN pending_delete \ {ev.pk} :
                       pending_delete'[pk] = pending_delete[pk]
       /\ \A k \in Keys :
            (ApplyPending(UIntCell(k)) /\ mt_get(index, UIntCell(k)) # None) =>
                /\ mt_get(index', UIntCell(k)) = None
                       <=> mt_get(index, UIntCell(k))[1].restored_txn <= pending_delete[UIntCell(k)]
                /\ mt_get(index', UIntCell(k)) # None =>
                       mt_get(index', UIntCell(k)) = mt_get(index, UIntCell(k))
                /\ \A j \in Keys \ {k} :
                       mt_get(index', UIntCell(j)) = mt_get(index, UIntCell(j))]_vars

\* the first batch held an Insert or Update with txn_id 1 and a Delete with txn_id
\* 3 for the same key: after the pending pass the key holds no row
C32_Witness ==
    /\ rstatus = "pending" /\ bpos = 0
    /\ pending_delete = <<>>
    /\ used = {1, 3}
    /\ ref[1] # None /\ ref[1][1].kind = "Delete" /\ ref[1][1].txn_id = 3
    /\ ref[2] = None
    /\ mt_get(index, UIntCell(1)) = None

\* C33: the row a turn of the event loop writes for an Insert or Update event with
\* txn_id t holds the event's i-th cell under the i-th of the model's field names
\* in schema order without the primary key, has exactly these names as keys, and
\* has schema_version = the batch's, data_version = 0 and restored_txn = t
C33_RestoredRowShape ==
    [][\A t \in 1..MaxTxn : \A ev \in EventsWith(t) :
        (/\ ApplyInsertUpdate(ev)
         /\ ~(mt_get(index, ev.pk) # None /\ mt_get(index, ev.pk)[1].restored_txn > t)) =>
            /\ mt_get(index', ev.pk) # None
            /\ DOMAIN mt_get(index', ev.pk)[1].data =
                   {non_pk_keys(Fields, p_key)[i] : i \in 1..NonPkCount}
            /\ \A i \in 1..NonPkCount :
                   /\ i \in DOMAIN ev.cells
                   /\ mt_get(index', ev.pk)[1].data[non_pk_keys(Fields, p_key)[i]] = ev.cells[i]
            /\ mt_get(index', ev.pk)[1].schema_version = schema_current_version
            /\ mt_get(index', ev.pk)[1].data_version = 0
            /\ mt_get(index', ev.pk)[1].restored_txn = t]_vars

\* C34: the pending-delete pass of apply_batch never reaches unreachable!(): every
\* key with a pending delete holds a row when its turn comes
C34_PendingDeleteFindsRow ==
    /\ rstatus # "panic"
    /\ rstatus = "pending" =>
           \A pk \in DOMAIN pending_delete : mt_get(index, pk) # None

\* C35: at every step of restore that is under way the tracked reader's cursor, the one is_eof and
\* has_left answer from, equals the number of bytes consumed from the file
C35_CursorTracksFile ==
    rpc # "done" => reader.pos = reader.cur

(***************************************************************************)
(* SpecRestoreTerm: restore run to its end. read_all_batches_and_for_each  *)
(* is one sequential call: whenever it has a next step it takes it, which  *)
(* is weak fairness of each of its steps.                                  *)
(***************************************************************************)
\* The decoding steps are total: ReadBatch is enabled exactly when ReadBatchReady
\* holds, and HandleReopen, ReadBatchSummary and AttemptRecover exactly when rpc
\* names them; a step that leaves such a state is the step of that action. Their
\* weak fairness is written with the state predicate DecodingDue in the place of
\* ENABLED and of the action; LoopExit is the one other step.
ReadBatchReady == rpc = "loop" /\ ~is_eof(FileOf(journal), reader) /\ ~closed
DecodingDue == ReadBatchReady \/ rpc \in {"reopen", "summary", "recover"}
SpecRestoreTerm ==
    /\ SpecRestore
    /\ WF_vars(LoopExit)
    /\ ([]<>(~DecodingDue) \/ []<><<DecodingDue>>_vars)

\* C36: for every journal file, well-formed or corrupted, the decoding loop comes
\* to its end, with Ok or with an error
C36_RestoreTerminates ==
    <>(rpc = "done" /\ rerr # "none")

\* restore ended after two recovery scans and a close marker that was a reopen
C36_Witness ==
    /\ rpc = "done" /\ rerr # "none"
    /\ scans >= 2
    /\ \E i \in DOMAIN journal : journal[i] = "A4"

\* C37: an insert that passes validation advances data_delta_version by exactly
\* one, whether it returns Ok or Duplicate, and one rejected with ValidationError
\* leaves it alone; only an Ok insert appends to the delta queue, with the
\* version just issued, so the queued versions are pairwise distinct.
C37_CounterPerValidatedInsert ==
    [][\A p \in PreparedInserts :
        Insert(p) =>
            /\ IF ~p.ok
               THEN /\ ret' = Some("ValidationError")
                    /\ data_delta_version' = data_delta_version
                    /\ queue' = queue
               ELSE /\ ret' \in {Some("Ok"), Some("Duplicate")}
                    /\ data_delta_version' = data_delta_version + 1
                    /\ ret' = Some("Duplicate") => queue' = queue
                    /\ ret' = Some("Ok") =>
                           /\ Len(queue') = Len(queue) + 1
                           /\ queue'[Len(queue')].version = data_delta_version'
            /\ \A i \in DOMAIN queue', j \in DOMAIN queue' :
                   queue'[i].version = queue'[j].version => i = j]_vars

\* the first insert was a Duplicate of a restored key and took version 1; the
\* second went through with version 2: the queue holds version 2 alone
C37_Witness ==
    /\ rstatus = "serving"
    /\ data_delta_version = 2
    /\ Len(queue) = 1 /\ queue[1].version = 2
    /\ ret = Some("Ok")

\* C38: verify_user of root returns Ok exactly when the password verifies against
\* the root key, whatever the users map holds; create_new_user of root is taken
\* like any new username; and no step changes the root key.
C38_RootByRootKeyOnly ==
    [][/\ root_key' = root_key
       /\ (aret'.op = "verify" /\ aret'.username = "root") =>
              (aret'.ret = "Ok" <=> rcrypt_verify(aret'.password, root_key))
       /\ (aret'.op = "create" /\ aret'.username = "root" /\ "root" \notin DOMAIN users) =>
              /\ aret'.ret = "Ok"
              /\ "root" \in DOMAIN users'
              /\ rcrypt_verify(aret'.password, users'["root"].key)]_vars

\* a user named root was created with a password that is not the root key's, and
\* verify_user of root with that password was turned down
C38_Witness ==
    /\ aret # None /\ aret.op = "verify" /\ aret.username = "root"
    /\ "root" \in DOMAIN created
    /\ aret.password = created["root"]
    /\ rcrypt_verify(aret.password, users["root"].key)
    /\ ~rcrypt_verify(aret.password, root_key)
    /\ aret.ret = "SysAuthError"
====
